---- MODULE Spec2Model ----
(***************************************************************************)
(* State-machine model of the Minecraft Updates page (js/index.js and its  *)
(* module managers): the mode flags, the dataset view, the compare         *)
(* selection, the detail target, the persisted snapshot, the URL           *)
(* parameters, and the lazily fetched mode datasets with the time-since    *)
(* interval timer.                                                         *)
(*                                                                         *)
(* Strings that the code inspects character by character (names, ids,      *)
(* dates) are sequences of one-character strings; the empty sequence       *)
(* stands for null, undefined and '' alike, which the code never tells     *)
(* apart (every test on them is a truthiness test).                        *)
(***************************************************************************)
EXTENDS Integers, Sequences, FiniteSets, TLC

(***************************************************************************)
(* Bounds of the model.                                                    *)
(***************************************************************************)
\* most lazy fetches of one manager in flight at the same time
MaxPending == 1
\* most fetches of the material groups file in flight at the same time
MaxGroupsPending == 2
\* most interval timers alive at the same time
MaxTimers == 2

(***************************************************************************)
(* Characters and small string helpers.                                    *)
(***************************************************************************)
Digits == {"0", "1", "2", "3", "4", "5", "6", "7", "8", "9"}

LowerSeq ==
    <<"a", "b", "c", "d", "e", "f", "g", "h", "i", "j", "k", "l", "m",
      "n", "o", "p", "q", "r", "s", "t", "u", "v", "w", "x", "y", "z">>

UpperSeq ==
    <<"A", "B", "C", "D", "E", "F", "G", "H", "I", "J", "K", "L", "M",
      "N", "O", "P", "Q", "R", "S", "T", "U", "V", "W", "X", "Y", "Z">>

Range(f) == {f[i] : i \in DOMAIN f}

Letters == Range(LowerSeq) \cup Range(UpperSeq)

\* String.prototype.toLowerCase, one character
ToLowerChar(c) ==
    IF c \in Range(UpperSeq)
    THEN LowerSeq[CHOOSE i \in 1..26 : UpperSeq[i] = c]
    ELSE c

ToLower(s) == [i \in 1..Len(s) |-> ToLowerChar(s[i])]

\* the regular expression class \s
IsSpace(c) == c \in {" ", "\t"}

\* String.prototype.includes
Includes(hay, needle) ==
    \E k \in 0..(Len(hay) - Len(needle)) :
        \A i \in 1..Len(needle) : hay[k + i] = needle[i]

NoStr == <<>>

\* the regular expression class [a-zA-Z0-9]
IsAlnum(c) == c \in Digits \/ c \in Letters

DigitChar(n) ==
    CASE n = 0 -> "0" [] n = 1 -> "1" [] n = 2 -> "2" [] n = 3 -> "3"
      [] n = 4 -> "4" [] n = 5 -> "5" [] n = 6 -> "6" [] n = 7 -> "7"
      [] n = 8 -> "8" [] OTHER -> "9"

RECURSIVE NumToStr(_)
\* `${year}` : decimal digits of a natural number
NumToStr(n) ==
    IF n < 10 THEN <<DigitChar(n)>>
    ELSE NumToStr(n \div 10) \o <<DigitChar(n % 10)>>

\* the value of the clock that the placeholder id reads
ClockNow == 7

(***************************************************************************)
(* Utils.generateCardId                                                    *)
(***************************************************************************)
Field(data, f) == IF f \in DOMAIN data THEN data[f] ELSE NoStr

\* data.display_name || data.name || data.release_version?.java || `year-${time}`,
\* the clock reading now
IdStringAt(data, now) ==
    IF Field(data, "display_name") # NoStr THEN data.display_name
    ELSE IF Field(data, "name") # NoStr THEN data.name
    ELSE IF Field(data, "java") # NoStr THEN data.java
    ELSE <<"y", "e", "a", "r", "-">> \o NumToStr(now)

IdString(data) == IdStringAt(data, ClockNow)

\* idString.replace(/[^a-zA-Z0-9]/g, '-')
Sanitize(s) == [i \in 1..Len(s) |-> IF IsAlnum(s[i]) THEN s[i] ELSE "-"]

\* generateCardId without the prefix in front of a digit
GenerateCardIdUnprefixed(data, now) == Sanitize(IdStringAt(data, now))

\* generateCardId called when the clock reads now
GenerateCardIdAt(data, now) ==
    LET sanitized == Sanitize(IdStringAt(data, now))
    IN  IF Len(sanitized) > 0 /\ sanitized[1] \in Digits
        THEN <<"i", "d", "-">> \o sanitized
        ELSE sanitized

GenerateCardId(data) == GenerateCardIdAt(data, ClockNow)

(***************************************************************************)
(* Dates.  A release_date is null, a bare 4-digit year, a full date or a   *)
(* string that Date cannot parse.                                          *)
(***************************************************************************)
NullDate == [kind |-> "null"]
YearOnly(y) == [kind |-> "year", y |-> y]
FullDate(y, m, d) == [kind |-> "full", y |-> y, m |-> m, d |-> d]
BadDate == [kind |-> "bad"]

\* Utils.isYearOnly
IsYearOnly(date) == date.kind = "year"

NoDate == [ok |-> FALSE]

\* Utils.parseDate: a bare year is December 31st of that year
ParseDate(date) ==
    CASE date.kind = "year" -> [ok |-> TRUE, y |-> date.y, m |-> 12, d |-> 31]
      [] date.kind = "full" -> [ok |-> TRUE, y |-> date.y, m |-> date.m, d |-> date.d]
      [] OTHER -> NoDate

\* the number a Date subtraction compares (day resolution is enough here)
DateValue(p) == (p.y * 12 + (p.m - 1)) * 31 + (p.d - 1)

(***************************************************************************)
(* The dataset.  Content types are cut down to two of CONTENT_TYPES.       *)
(***************************************************************************)
ContentTypes == <<"blocks", "items">>

Item(name, identifier, types) ==
    [name |-> name, identifier |-> identifier, types |-> types, tags |-> <<>>]

Hidden == <<"h", "i", "d", "d", "e", "n">>

ItemA == Item(<<"A", "x">>, <<"a", "x">>, <<>>)

ItemB == Item(<<"B", "x">>, <<"b", "x">>, <<Hidden>>)

\* the records as the per-file fetches return them, in index order
FetchedUpdates ==
    << [name |-> <<"a", "b">>, java |-> <<"1", ".", "2">>, type |-> "major",
        release_date |-> FullDate(2021, 6, 1),
        added |-> [blocks |-> <<ItemA>>, items |-> <<>>]],
       [name |-> NoStr, java |-> <<"1", ".", "1">>, type |-> "drop",
        release_date |-> YearOnly(2020),
        added |-> [blocks |-> <<>>, items |-> <<ItemB>>]] >>

(***************************************************************************)
(* MinecraftUpdatesApp.init: the sort of the fetched records.              *)
(***************************************************************************)
\* the comparator with the bare years compared the other way round
UpdateCompareOldestYearFirst(a, b) ==
    LET da == a.release_date
        db == b.release_date
        pa == ParseDate(da)
        pb == ParseDate(db)
    IN  IF da = NullDate /\ db # NullDate THEN -1
        ELSE IF da # NullDate /\ db = NullDate THEN 1
        ELSE IF da = NullDate /\ db = NullDate THEN 0
        ELSE IF IsYearOnly(da) /\ ~IsYearOnly(db) THEN -1
        ELSE IF ~IsYearOnly(da) /\ IsYearOnly(db) THEN 1
        ELSE IF IsYearOnly(da) /\ IsYearOnly(db) THEN da.y - db.y
        ELSE IF ~pa.ok /\ ~pb.ok THEN 0
        ELSE IF ~pa.ok THEN -1
        ELSE IF ~pb.ok THEN 1
        ELSE DateValue(pb) - DateValue(pa)

\* the comparator handed to updatesData.sort
UpdateCompare(a, b) ==
    LET da == a.release_date
        db == b.release_date
        pa == ParseDate(da)
        pb == ParseDate(db)
    IN  IF da = NullDate /\ db # NullDate THEN -1
        ELSE IF da # NullDate /\ db = NullDate THEN 1
        ELSE IF da = NullDate /\ db = NullDate THEN 0
        ELSE IF IsYearOnly(da) /\ ~IsYearOnly(db) THEN -1
        ELSE IF ~IsYearOnly(da) /\ IsYearOnly(db) THEN 1
        ELSE IF IsYearOnly(da) /\ IsYearOnly(db) THEN db.y - da.y
        ELSE IF ~pa.ok /\ ~pb.ok THEN 0
        ELSE IF ~pa.ok THEN -1
        ELSE IF ~pb.ok THEN 1
        ELSE DateValue(pb) - DateValue(pa)

RECURSIVE InsertSorted(_, _)
\* stable insertion: x goes behind every element that does not sort after it
InsertSorted(sorted, x) ==
    IF sorted = <<>> THEN <<x>>
    ELSE IF UpdateCompare(Head(sorted), x) <= 0
         THEN <<Head(sorted)>> \o InsertSorted(Tail(sorted), x)
         ELSE <<x>> \o sorted

RECURSIVE SortUpdates(_)
\* Array.prototype.sort with UpdateCompare (a stable sort)
SortUpdates(updates) ==
    IF updates = <<>> THEN <<>>
    ELSE InsertSorted(SortUpdates(SubSeq(updates, 1, Len(updates) - 1)),
                      updates[Len(updates)])

\* state.allUpdates once the load has succeeded
LoadedUpdates == SortUpdates(FetchedUpdates)

(***************************************************************************)
(* DataManager.groupByYear                                                 *)
(***************************************************************************)
CreateEmptyContent == [t \in Range(ContentTypes) |-> <<>>]

YearOf(data) ==
    LET p == ParseDate(data.release_date) IN IF p.ok THEN p.y ELSE 0

RECURSIVE ConcatAdded(_, _, _)
\* the lists of one content type of the records of one year, in input order
ConcatAdded(updates, year, t) ==
    IF updates = <<>> THEN <<>>
    ELSE (IF YearOf(Head(updates)) = year THEN Head(updates).added[t] ELSE <<>>)
         \o ConcatAdded(Tail(updates), year, t)

YearGroup(updates, year) ==
    [name |-> NumToStr(year), type |-> "year",
     added |-> [t \in Range(ContentTypes) |-> ConcatAdded(updates, year, t)]]

RECURSIVE YearsDescending(_)
YearsDescending(years) ==
    IF years = {} THEN <<>>
    ELSE LET top == CHOOSE y \in years : \A z \in years : z <= y
         IN  <<top>> \o YearsDescending(years \ {top})

\* groupByYear without the test of the year
GroupByYearKeepingUndated(updates) ==
    LET years == {YearOf(updates[i]) : i \in 1..Len(updates)}
        order == YearsDescending(years)
    IN  [i \in 1..Len(order) |-> YearGroup(updates, order[i])]

\* DataManager.groupByYear (utils.js:264-289)

GroupByYear(updates) ==
    LET years == {YearOf(updates[i]) : i \in 1..Len(updates)} \ {0}
        order == YearsDescending(years)
    IN  [i \in 1..Len(order) |-> YearGroup(updates, order[i])]

(***************************************************************************)
(* DataManager.parseSearchQuery / filterItems / getFilteredData            *)
(***************************************************************************)
RECURSIVE Tokens(_, _)
\* query.trim().split(/\s+/): cur is the token being read
Tokens(s, cur) ==
    IF s = <<>> THEN (IF cur = <<>> THEN <<>> ELSE <<cur>>)
    ELSE IF IsSpace(Head(s))
         THEN (IF cur = <<>> THEN <<>> ELSE <<cur>>) \o Tokens(Tail(s), <<>>)
         ELSE Tokens(Tail(s), Append(cur, Head(s)))

\* token.slice(1).replace(/[^\w-]/g, '')
\* the tag of a token with everything but word characters removed
TagOfWordCharacters(token) ==
    SelectSeq(Tail(token), LAMBDA c : IsAlnum(c) \/ c = "_")

TagOf(token) ==
    SelectSeq(Tail(token), LAMBDA c : IsAlnum(c) \/ c \in {"_", "-"})

RECURSIVE JoinSpace(_)
JoinSpace(toks) ==
    IF toks = <<>> THEN <<>>
    ELSE IF Len(toks) = 1 THEN toks[1]
    ELSE toks[1] \o <<" ">> \o JoinSpace(Tail(toks))

ParseSearchQuery(query) ==
    LET tokens == Tokens(ToLower(query), <<>>)
        tagToks == SelectSeq(tokens, LAMBDA t : Head(t) = "#")
        tags == SelectSeq([i \in 1..Len(tagToks) |-> TagOf(tagToks[i])],
                          LAMBDA t : t # <<>>)
        textToks == SelectSeq(tokens, LAMBDA t : Head(t) # "#")
    IN  [text |-> JoinSpace(textToks), tags |-> tags]

ToLowerAll(strings) == [i \in 1..Len(strings) |-> ToLower(strings[i])]

ItemMatches(item, parsed) ==
    LET allTags == {ToLower(item.types[i]) : i \in 1..Len(item.types)}
                   \cup {ToLower(item.tags[i]) : i \in 1..Len(item.tags)}
        matchesText ==
            parsed.text = <<>>
            \/ Includes(ToLower(item.name), parsed.text)
            \/ Includes(ToLower(item.identifier), parsed.text)
        matchesTags ==
            \A i \in 1..Len(parsed.tags) : parsed.tags[i] \in allTags
    IN  matchesText /\ matchesTags

\* filterItems testing the lower-cased types for "hidden"
FilterItemsHiddenAnyCase(items, query, removeDuplicates) ==
    LET parsed == ParseSearchQuery(query)
        filtered == SelectSeq(items, LAMBDA it : ItemMatches(it, parsed))
    IN  IF removeDuplicates
        THEN SelectSeq(filtered, LAMBDA it : Hidden \notin Range(ToLowerAll(it.types)))
        ELSE filtered

\* DataManager.filterItems (utils.js:154-183)

FilterItems(items, query, removeDuplicates) ==
    LET parsed == ParseSearchQuery(query)
        filtered == SelectSeq(items, LAMBDA it : ItemMatches(it, parsed))
    IN  IF removeDuplicates
        THEN SelectSeq(filtered, LAMBDA it : Hidden \notin Range(it.types))
        ELSE filtered

\* filterAllContentTypes leaving out the first item that passes
FilterAllContentTypesDroppingFirst(entry, query, removeDuplicates) ==
    [t \in Range(ContentTypes) |->
        LET kept == FilterItems(entry.added[t], query, removeDuplicates)
        IN  IF kept = <<>> THEN kept ELSE Tail(kept)]

\* DataManager.filterAllContentTypes (utils.js:192-198)

FilterAllContentTypes(entry, query, removeDuplicates) ==
    [t \in Range(ContentTypes) |->
        FilterItems(entry.added[t], query, removeDuplicates)]

\* getFilteredData without the visibility flags
GetFilteredDataAnyContent(allUpdates, currentView, query, removeDuplicates, visibility) ==
    LET sourceData == IF currentView = "versions" THEN allUpdates
                      ELSE GroupByYear(allUpdates)
        mapped == [i \in 1..Len(sourceData) |->
                      [sourceData[i] EXCEPT !.added =
                          FilterAllContentTypes(sourceData[i], query, removeDuplicates)]]
    IN  SelectSeq(mapped, LAMBDA e :
            \E t \in Range(ContentTypes) : Len(e.added[t]) > 0)

\* DataManager.getFilteredData (utils.js:309-354)

\* visibility: a function from content type to the show flag
GetFilteredData(allUpdates, currentView, query, removeDuplicates, visibility) ==
    LET sourceData == IF currentView = "versions" THEN allUpdates
                      ELSE GroupByYear(allUpdates)
        mapped == [i \in 1..Len(sourceData) |->
                      [sourceData[i] EXCEPT !.added =
                          FilterAllContentTypes(sourceData[i], query, removeDuplicates)]]
    IN  SelectSeq(mapped, LAMBDA e :
            \E t \in Range(ContentTypes) : visibility[t] /\ Len(e.added[t]) > 0)

(***************************************************************************)
(* DataManager.getGrowthByVersion / getGrowthByYear and                    *)
(* StatisticsManager.calculateChartData, for the two content types.        *)
(***************************************************************************)
RECURSIVE RunningSum(_, _)
\* total += count; counts.push(total), for every element in turn
RunningSum(counts, total) ==
    IF counts = <<>> THEN <<>>
    ELSE <<total + Head(counts)>> \o RunningSum(Tail(counts), total + Head(counts))

\* update.release_version?.java || update.name
GrowthLabel(update) == IF update.java # NoStr THEN update.java ELSE update.name

\* updates.forEach in the order of the array it is given
GetGrowthByVersion(updates) ==
    [labels |-> [i \in 1..Len(updates) |-> GrowthLabel(updates[i])],
     blocks |-> RunningSum([i \in 1..Len(updates) |-> Len(updates[i].added.blocks)], 0),
     items |-> RunningSum([i \in 1..Len(updates) |-> Len(updates[i].added.items)], 0)]

RECURSIVE YearsAscending(_)
\* Object.keys(byYear).sort() for years of four digits
YearsAscending(years) ==
    IF years = {} THEN <<>>
    ELSE LET first == CHOOSE y \in years : \A z \in years : y <= z
         IN  <<first>> \o YearsAscending(years \ {first})

RECURSIVE CountInYear(_, _, _)
\* acc[year][t] += update.added?.[t]?.length || 0
CountInYear(updates, year, t) ==
    IF updates = <<>> THEN 0
    ELSE (IF YearOf(Head(updates)) = year THEN Len(Head(updates).added[t]) ELSE 0)
         + CountInYear(Tail(updates), year, t)

GetGrowthByYear(updates) ==
    LET years == {YearOf(updates[i]) : i \in 1..Len(updates)} \ {0}
        labels == YearsAscending(years)
    IN  [labels |-> [i \in 1..Len(labels) |-> NumToStr(labels[i])],
         blocks |-> RunningSum([i \in 1..Len(labels) |->
                                   CountInYear(updates, labels[i], "blocks")], 0),
         items |-> RunningSum([i \in 1..Len(labels) |->
                                  CountInYear(updates, labels[i], "items")], 0)]

\* stats.forEach in the order of the statistics file; a stat is a label
\* with its counts
CalculateChartData(stats, cumulative) ==
    LET counts(t) == [i \in 1..Len(stats) |-> stats[i].counts[t]]
    IN  [labels |-> [i \in 1..Len(stats) |-> stats[i].label],
         blocks |-> IF cumulative THEN RunningSum(counts("blocks"), 0)
                    ELSE counts("blocks"),
         items |-> IF cumulative THEN RunningSum(counts("items"), 0)
                   ELSE counts("items")]

(***************************************************************************)
(* The state of the page.                                                  *)
(***************************************************************************)
VARIABLES
    phase,          \* "loading", "ready" or "failed": the initial load
    load,           \* the fetches of the initial load and their outcomes
    state,          \* MinecraftUpdatesApp.state
    tmp,            \* the _url... and _saved... fields of the app object
    storage,        \* the localStorage entry minecraft_updates_ui_state
    url,            \* the query parameters of window.location
    search,         \* the value of the search bar
    debounce,       \* the closure of searchDebounce and the timeouts it has set
    stats,          \* StatisticsManager: state, elements, fetches in flight
    timeSince,      \* TimeSinceManager.state and its fetches in flight
    timers,         \* the interval timers that are alive
    materialGroups, \* MaterialGroupsManager.state and its fetches in flight
    content,        \* what elements.content shows
    links,          \* the .detail-link buttons inside elements.content
    cards,          \* the ids of the .update-card elements on the page
    nav,            \* the .nav-version-nav-btn buttons of the nav list
    selectSource,   \* the dataSource captured by the compare selectors
    groups          \* the material group sections: collapsed on the page, and
                    \* the material-group-collapsed-... keys of localStorage

vars == <<phase, load, state, tmp, storage, url, search, debounce, stats, timeSince,
          timers, materialGroups, content, links, cards, nav, selectSource,
          groups>>

Null == [null |-> TRUE]

Modes == {"list", "compare", "stats", "time-since", "material-groups", "detail"}

Views == {"versions", "years"}

\* the state object built by the constructor (index.js:18-44)
DefaultState ==
    [allUpdates |-> <<>>,
     currentView |-> "versions",
     removeDuplicates |-> TRUE,
     showBlocks |-> TRUE,
     showItems |-> TRUE,
     collapsedSections |-> {},
     compareVersions |-> <<Null, Null>>,
     isCompareMode |-> FALSE,
     isStatsMode |-> FALSE,
     isTimeSinceMode |-> FALSE,
     isMaterialGroupsMode |-> FALSE,
     isDetailMode |-> FALSE,
     detailTarget |-> Null,
     detailReturnContext |-> "list"]

\* an id array that was never stored, or was deleted
NoIds == [set |-> FALSE]

Ids(a, b) == [set |-> TRUE, ids |-> <<a, b>>]

DefaultTmp ==
    [urlDetailTarget |-> Null, savedDetailTarget |-> Null,
     urlCompareVersionIds |-> NoIds, savedCompareVersionIds |-> NoIds]

NoEntry == [kind |-> "none"]

NoParams ==
    [view |-> "", mode |-> "", search |-> NoStr, compare1 |-> NoStr,
     compare2 |-> NoStr, detailType |-> "", detailId |-> NoStr]

\* the fetches of init: the index file, then one fetch per file it lists
Files == 1..Len(FetchedUpdates)

\* updatesData holds the records the file fetches return, in index order
NoneFetched ==
    [index |-> "pending", arrived |-> {}, failed |-> {}, updatesData |-> FetchedUpdates]

AllFetched ==
    [index |-> "done", arrived |-> Files, failed |-> {}, updatesData |-> FetchedUpdates]

DefaultStats == [data |-> FALSE, elements |-> FALSE, chart |-> FALSE, pending |-> 0]

DefaultTimeSince == [data |-> FALSE, updateInterval |-> 0, pending |-> 0]

DefaultMaterialGroups == [data |-> FALSE, pending |-> 0]

\* no section is on the page and no section key is stored
NoGroups == [shown |-> {}, stored |-> {}]

(***************************************************************************)
(* A handler is a function on the whole page, W -> W.  The fields micro    *)
(* and ok exist only while a handler runs: micro lists the render          *)
(* continuations that wait behind an already resolved promise and          *)
(* therefore run when the handler's synchronous code is over; ok turns     *)
(* FALSE when a bound of the model would be exceeded; raised turns TRUE    *)
(* when an exception leaves the handler uncaught; effects lists what the   *)
(* handler did to the history, to the stored snapshot and to the page.     *)
(***************************************************************************)
World ==
    [phase |-> phase, load |-> load, st |-> state, tmp |-> tmp, storage |-> storage,
     url |-> url, search |-> search, debounce |-> debounce, stats |-> stats,
     ts |-> timeSince, timers |-> timers, mg |-> materialGroups,
     content |-> content, links |-> links, cards |-> cards, nav |-> nav,
     selectSource |-> selectSource, groups |-> groups, micro |-> <<>>,
     ok |-> TRUE, raised |-> FALSE, effects |-> <<>>]

\* the handler did this
Did(w, what) == [w EXCEPT !.effects = Append(@, what)]

Target(type, id) == [type |-> type, id |-> id]

YearEntries(st) == GroupByYear(st.allUpdates)

Visibility(st) == [blocks |-> st.showBlocks, items |-> st.showItems]

\* String.prototype.trim
RECURSIVE TrimLeft(_)
TrimLeft(s) ==
    IF s # <<>> /\ IsSpace(Head(s)) THEN TrimLeft(Tail(s)) ELSE s

RECURSIVE TrimRight(_)
TrimRight(s) ==
    IF s # <<>> /\ IsSpace(s[Len(s)]) THEN TrimRight(SubSeq(s, 1, Len(s) - 1)) ELSE s

Trim(s) == TrimRight(TrimLeft(s))

\* getSearchQuery (index.js:733)
GetSearchQuery(w) == Trim(w.search)

\* getCurrentMode (index.js:679)
GetCurrentMode(st) ==
    IF st.isDetailMode THEN "detail"
    ELSE IF st.isCompareMode THEN "compare"
    ELSE IF st.isStatsMode THEN "stats"
    ELSE IF st.isTimeSinceMode THEN "time-since"
    ELSE IF st.isMaterialGroupsMode THEN "material-groups"
    ELSE "list"

(***************************************************************************)
(* saveState and restoreState (index.js:230-259, 419-514)                  *)
(***************************************************************************)
IdOrNone(v) == IF v = Null THEN NoStr ELSE GenerateCardId(v)

\* stateToPersist, as JSON.stringify and JSON.parse carry it
Snapshot(st) ==
    [currentView |-> st.currentView,
     removeDuplicates |-> st.removeDuplicates,
     showBlocks |-> st.showBlocks,
     showItems |-> st.showItems,
     collapsedSections |-> st.collapsedSections,
     isCompareMode |-> st.isCompareMode,
     isStatsMode |-> st.isStatsMode,
     isTimeSinceMode |-> st.isTimeSinceMode,
     isMaterialGroupsMode |-> st.isMaterialGroupsMode,
     isDetailMode |-> st.isDetailMode,
     detailTarget |-> st.detailTarget,
     detailReturnContext |-> st.detailReturnContext,
     compareVersionIds |-> <<IdOrNone(st.compareVersions[1]),
                             IdOrNone(st.compareVersions[2])>>]

\* a store of kind "broken" throws from getItem, setItem and removeItem; the
\* catch of saveState drops the exception
SaveState(w) ==
    IF w.storage.kind = "broken" THEN w
    ELSE Did([w EXCEPT !.storage = [kind |-> "json", value |-> Snapshot(w.st)]],
             "setItem")

\* the mode flags of restoreState, in the order of the statements
RestoreFlags(st, saved) ==
    LET a == [st EXCEPT !.isCompareMode = saved.isCompareMode,
                        !.isStatsMode = saved.isStatsMode,
                        !.isTimeSinceMode = saved.isTimeSinceMode,
                        !.isMaterialGroupsMode = saved.isMaterialGroupsMode]
        b == IF a.isStatsMode
             THEN [a EXCEPT !.isCompareMode = FALSE, !.isTimeSinceMode = FALSE]
             ELSE a
        c == IF b.isTimeSinceMode
             THEN [b EXCEPT !.isCompareMode = FALSE, !.isStatsMode = FALSE,
                            !.isMaterialGroupsMode = FALSE]
             ELSE b
        d == IF c.isMaterialGroupsMode
             THEN [c EXCEPT !.isCompareMode = FALSE, !.isStatsMode = FALSE,
                            !.isTimeSinceMode = FALSE]
             ELSE c
        e == [d EXCEPT !.isDetailMode = saved.isDetailMode]
        f == IF saved.detailTarget # Null
             THEN [e EXCEPT !.detailTarget = saved.detailTarget]
             ELSE e
        g == IF saved.detailReturnContext # ""
             THEN [f EXCEPT !.detailReturnContext = saved.detailReturnContext]
             ELSE f
    IN  IF g.isDetailMode
        THEN [g EXCEPT !.isStatsMode = FALSE, !.isCompareMode = FALSE,
                       !.isTimeSinceMode = FALSE, !.isMaterialGroupsMode = FALSE]
        ELSE g

\* the fields of a stored entry whose JSON value has another type than the one
\* saveState writes, with the type found there; nothing for an entry that
\* saveState wrote
Mistyped(entry) == IF entry.kind = "edited" THEN entry.mistyped ELSE <<>>

\* the fields restoreState takes only after a typeof / Array.isArray test
\* (index.js:433-443, 450-464, 483, 503)
TypeTested ==
    {"removeDuplicates", "showBlocks", "showItems", "isCompareMode", "isStatsMode",
     "isTimeSinceMode", "isMaterialGroupsMode", "isDetailMode", "compareVersionIds"}

\* a stored entry is nothing (getItem gives null), a text that JSON.parse
\* rejects, the JSON saveState wrote, or JSON that was edited since, and a
\* broken store throws into the catch as the rejected text does; a field
\* whose type test fails is not assigned, which is read here as assigning the
\* value the state has already
RestoreState(w) ==
    IF w.storage.kind \notin {"json", "edited"} THEN w
    ELSE
    LET mistyped == Mistyped(w.storage)
        saved == [f \in DOMAIN w.storage.value |->
                     IF f \in TypeTested \cap DOMAIN mistyped /\ f # "compareVersionIds"
                     THEN w.st[f]
                     ELSE w.storage.value[f]]
        a == IF saved.currentView \in Views
             THEN [w.st EXCEPT !.currentView = saved.currentView]
             ELSE w.st
        b == [a EXCEPT !.removeDuplicates = saved.removeDuplicates,
                       !.showBlocks = saved.showBlocks,
                       !.showItems = saved.showItems,
                       !.collapsedSections =
                           IF "collapsedSections" \in DOMAIN mistyped
                              /\ mistyped.collapsedSections \notin {"array", "object"}
                           THEN @
                           ELSE saved.collapsedSections]
        c == RestoreFlags(b, saved)
    IN  [w EXCEPT !.st = c,
                  !.tmp.savedDetailTarget =
                      IF saved.detailTarget # Null THEN saved.detailTarget ELSE @,
                  !.tmp.savedCompareVersionIds =
                      IF "compareVersionIds" \in DOMAIN mistyped
                      THEN @
                      ELSE Ids(saved.compareVersionIds[1], saved.compareVersionIds[2])]

(***************************************************************************)
(* restoreFromURL and updateURL (index.js:265-322, 329-414)                *)
(***************************************************************************)
RestoreFromURL(w) ==
    LET p == w.url
        a == IF p.view \in Views THEN [w.st EXCEPT !.currentView = p.view] ELSE w.st
        \* lines 278-306: the else-if chain only clears flags that are
        \* already false
        b == [a EXCEPT !.isCompareMode = (p.mode = "compare"),
                       !.isStatsMode = (p.mode = "stats"),
                       !.isTimeSinceMode = (p.mode = "time-since"),
                       !.isMaterialGroupsMode = (p.mode = "material-groups"),
                       !.isDetailMode = (p.mode = "detail")]
        detailType == IF p.detailType # "" THEN p.detailType ELSE "version"
    IN  [w EXCEPT
            !.st = b,
            !.tmp.urlDetailTarget =
                IF b.isDetailMode /\ p.detailId # NoStr
                THEN Target(detailType, p.detailId) ELSE @,
            !.search = IF p.search # NoStr THEN p.search ELSE @,
            !.tmp.urlCompareVersionIds =
                IF b.isCompareMode /\ (p.compare1 # NoStr \/ p.compare2 # NoStr)
                THEN Ids(p.compare1, p.compare2) ELSE @]

\* URLSearchParams.set turns its value into a string; a target without an id
\* (restored from an edited entry) gives the text of undefined
ParamString(v) ==
    IF v = NoStr THEN <<"u", "n", "d", "e", "f", "i", "n", "e", "d">> ELSE v

UrlOf(w) ==
    LET st == w.st
        base == [NoParams EXCEPT !.view = st.currentView, !.search = GetSearchQuery(w)]
    IN  IF st.isDetailMode /\ st.detailTarget # Null
        THEN [base EXCEPT !.mode = "detail", !.detailType = st.detailTarget.type,
                          !.detailId = ParamString(st.detailTarget.id)]
        ELSE IF st.isStatsMode THEN [base EXCEPT !.mode = "stats"]
        ELSE IF st.isTimeSinceMode THEN [base EXCEPT !.mode = "time-since"]
        ELSE IF st.isMaterialGroupsMode THEN [base EXCEPT !.mode = "material-groups"]
        ELSE IF st.isCompareMode
        THEN [base EXCEPT !.mode = "compare",
                          !.compare1 = IdOrNone(st.compareVersions[1]),
                          !.compare2 = IdOrNone(st.compareVersions[2])]
        ELSE base

\* history.pushState when pushHistory, history.replaceState otherwise
UpdateURL(w, pushHistory) ==
    Did([w EXCEPT !.url = UrlOf(w)],
        IF pushHistory THEN "pushState" ELSE "replaceState")

(***************************************************************************)
(* restoreCompareVersions (index.js:652-673)                               *)
(***************************************************************************)
\* dataSource.find((item) => Utils.generateCardId(item) === id) || null
FindById(dataSource, id) ==
    IF \E i \in 1..Len(dataSource) : GenerateCardId(dataSource[i]) = id
    THEN dataSource[CHOOSE i \in 1..Len(dataSource) :
                        /\ GenerateCardId(dataSource[i]) = id
                        /\ \A j \in 1..(i - 1) : GenerateCardId(dataSource[j]) # id]
    ELSE Null

DataSource(st) ==
    IF st.currentView = "years" THEN YearEntries(st) ELSE st.allUpdates

\* the lookup of an id falling back to the first record
ResolveIdOrFirst(dataSource, id) ==
    IF id = NoStr THEN Null
    ELSE IF FindById(dataSource, id) = Null /\ dataSource # <<>> THEN dataSource[1]
    ELSE FindById(dataSource, id)

\* `if (!id) return null; return dataSource.find(...) || null`
ResolveId(dataSource, id) ==
    IF id = NoStr THEN Null ELSE FindById(dataSource, id)

\* restoreCompareVersions taking the saved ids before those of the URL
RestoreCompareVersionsSavedFirst(w) ==
    LET compareVersionIds ==
            IF w.tmp.savedCompareVersionIds.set THEN w.tmp.savedCompareVersionIds
            ELSE w.tmp.urlCompareVersionIds
    IN  IF ~compareVersionIds.set THEN w
        ELSE [w EXCEPT
                !.st.compareVersions =
                    <<ResolveId(DataSource(w.st), compareVersionIds.ids[1]),
                      ResolveId(DataSource(w.st), compareVersionIds.ids[2])>>,
                !.tmp.savedCompareVersionIds = NoIds,
                !.tmp.urlCompareVersionIds = NoIds]

RestoreCompareVersions(w) ==
    LET compareVersionIds ==
            IF w.tmp.urlCompareVersionIds.set THEN w.tmp.urlCompareVersionIds
            ELSE w.tmp.savedCompareVersionIds
    IN  IF ~compareVersionIds.set THEN w
        ELSE [w EXCEPT
                !.st.compareVersions =
                    <<ResolveId(DataSource(w.st), compareVersionIds.ids[1]),
                      ResolveId(DataSource(w.st), compareVersionIds.ids[2])>>,
                !.tmp.savedCompareVersionIds = NoIds,
                !.tmp.urlCompareVersionIds = NoIds]

(***************************************************************************)
(* What the page shows.                                                    *)
(***************************************************************************)
\* elements.content is replaced: the old cards, links and selectors are gone
Show(w, kind, newLinks, newCards) ==
    [w EXCEPT !.content = kind, !.links = newLinks, !.cards = newCards,
              !.selectSource = <<>>, !.groups.shown = {}]

\* card-renderer.js:21-22 and 34-36: the detail-link of a card
CardType(st, data) ==
    IF st.currentView = "years" \/ Field(data, "type") = "year"
    THEN "year" ELSE "version"

CardLinks(st, list) ==
    {Target(CardType(st, list[i]), GenerateCardId(list[i])) : i \in 1..Len(list)}

CardIds(list) == {GenerateCardId(list[i]) : i \in 1..Len(list)}

(***************************************************************************)
(* The three lazily fetched mode datasets.                                 *)
(***************************************************************************)
\* a fetch goes out unless the bound on fetches in flight is reached
StartFetch(w, pending) ==
    IF pending >= MaxPending THEN [w EXCEPT !.ok = FALSE] ELSE w

\* the same for the material groups file, whose fetches have a bound of
\* their own
StartGroupsFetch(w, pending) ==
    IF pending >= MaxGroupsPending THEN [w EXCEPT !.ok = FALSE] ELSE w

\* StatisticsManager.reset (unnamed/part_002:52-55)
StatsReset(w) ==
    Did([w EXCEPT !.stats.elements = FALSE, !.stats.chart = FALSE], "reset")

\* StatisticsManager.render up to the await (unnamed/part_002:57-63)
StatsRender(w) ==
    LET a == [Show(w, "loading-stats", {}, {}) EXCEPT !.nav = {}, !.stats.chart = FALSE]
    IN  IF a.stats.data
        THEN [a EXCEPT !.micro = Append(@, "stats")]
        ELSE [StartFetch(a, a.stats.pending) EXCEPT !.stats.pending = @ + 1]

\* the rows of the content table: a row links to the record it counts
\* (unnamed/part_002:432-441, 556-574)
StatsLinks(st) ==
    IF st.currentView = "years"
    THEN {Target("year", GenerateCardId([name |-> NumToStr(YearOf(LoadedUpdates[i]))])) :
            i \in {j \in 1..Len(LoadedUpdates) : YearOf(LoadedUpdates[j]) # 0}}
    ELSE {Target("version", GenerateCardId(st.allUpdates[i])) :
            i \in 1..Len(st.allUpdates)}

\* StatisticsManager.render behind the await (unnamed/part_002:65-101)
StatsContinue(w) ==
    [Show(w, "stats", StatsLinks(w.st), {}) EXCEPT
        !.stats.elements = TRUE, !.stats.chart = TRUE]

StatsFailed(w) == Show(w, "stats-error", {}, {})

\* TimeSinceManager.reset (time-since.js:31-37)
TimeSinceReset(w) ==
    Did([w EXCEPT !.timers = IF w.ts.updateInterval # 0
                             THEN @ \ {w.ts.updateInterval} ELSE @,
                  !.ts.updateInterval = 0,
                  !.ts.data = FALSE],
        "reset")

\* TimeSinceManager.startTimerUpdates (time-since.js:228-236)
StartTimerUpdates(w) ==
    IF Cardinality(w.timers) >= MaxTimers THEN [w EXCEPT !.ok = FALSE]
    ELSE LET id == CHOOSE i \in 1..MaxTimers :
                      /\ i \notin w.timers
                      /\ \A j \in 1..(i - 1) : j \in w.timers
         IN  [w EXCEPT !.timers = @ \cup {id}, !.ts.updateInterval = id]

\* TimeSinceManager.render up to the await (time-since.js:39-44)
TimeSinceRender(w) ==
    LET a == [Show(w, "loading-time-since", {}, {}) EXCEPT !.nav = {}]
    IN  IF a.ts.data
        THEN [a EXCEPT !.micro = Append(@, "time-since")]
        ELSE [StartFetch(a, a.ts.pending) EXCEPT !.ts.pending = @ + 1]

\* TimeSinceManager.render behind the await (time-since.js:46-50)
TimeSinceContinue(w) == StartTimerUpdates(Show(w, "time-since", {}, {}))

TimeSinceFailed(w) == Show(w, "time-since-error", {}, {})

\* MaterialGroupsManager.reset (detail-view.js:178-180)
MaterialGroupsReset(w) == Did([w EXCEPT !.mg.data = FALSE], "reset")

\* MaterialGroupsManager.render up to the await
MaterialGroupsRender(w) ==
    LET a == [Show(w, "loading-material-groups", {}, {}) EXCEPT !.nav = {}]
    IN  IF a.mg.data
        THEN [a EXCEPT !.micro = Append(@, "material-groups")]
        ELSE [StartGroupsFetch(a, a.mg.pending) EXCEPT !.mg.pending = @ + 1]

\* the catch of MaterialGroupsManager.render (detail-view.js:194-197)
MaterialGroupsFailed(w) == Show(w, "material-groups-error", {}, {})

\* the sections buildTemplate makes of the fetched groups
GroupSections == {"material-group-0"}

\* MaterialGroupsManager.render behind the await: buildGroup asks
\* isSectionCollapsed for every section, which reads the store outside any
\* try of its own, so a throwing store ends in the catch of render
MaterialGroupsContinue(w) ==
    IF w.storage.kind = "broken" THEN MaterialGroupsFailed(w)
    ELSE [Show(w, "material-groups", {}, {}) EXCEPT
             !.groups.shown = w.groups.stored \cap GroupSections]

\* setSectionCollapsed (detail-view.js:233-240)
SetSectionCollapsed(w, sectionId, collapsed) ==
    IF w.storage.kind = "broken" THEN [w EXCEPT !.raised = TRUE]
    ELSE [w EXCEPT !.groups.stored =
             IF collapsed THEN @ \cup {sectionId} ELSE @ \ {sectionId}]

\* the click listener of a section title (detail-view.js:203-223)
ToggleGroupSection(w, sectionId) ==
    IF sectionId \in w.groups.shown
    THEN SetSectionCollapsed([w EXCEPT !.groups.shown = @ \ {sectionId}],
                             sectionId, FALSE)
    ELSE SetSectionCollapsed([w EXCEPT !.groups.shown = @ \cup {sectionId}],
                             sectionId, TRUE)

RECURSIVE RunMicrotasks(_)
\* the continuations queued behind resolved promises, in queue order
RunMicrotasks(w) ==
    IF w.micro = <<>> THEN w
    ELSE LET rest == [w EXCEPT !.micro = Tail(@)]
             kind == Head(w.micro)
         IN  RunMicrotasks(
                CASE kind = "stats" -> StatsContinue(rest)
                  [] kind = "time-since" -> TimeSinceContinue(rest)
                  [] OTHER -> MaterialGroupsContinue(rest))

(***************************************************************************)
(* CompareManager (unnamed/part_002:578-)                                   *)
(***************************************************************************)
NonNull(pair) == SelectSeq(pair, LAMBDA v : v # Null)

\* CompareManager.renderCards
CompareRenderCards(w) ==
    IF w.content # "compare" THEN w
    ELSE [w EXCEPT !.links = CardLinks(w.st, NonNull(w.st.compareVersions)),
                   !.cards = CardIds(NonNull(w.st.compareVersions))]

ReResolve(dataSource, item) ==
    IF item = Null THEN Null ELSE FindById(dataSource, GenerateCardId(item))

\* CompareManager.render
CompareRender(w) ==
    LET dataSource == DataSource(w.st)
        a == [w EXCEPT !.nav = {},
                       !.st.compareVersions =
                           <<ReResolve(dataSource, @[1]), ReResolve(dataSource, @[2])>>]
        b == [Show(a, "compare", {}, {}) EXCEPT !.selectSource = dataSource]
    IN  CompareRenderCards(b)

(***************************************************************************)
(* MinecraftUpdatesApp.render and DetailViewManager                        *)
(***************************************************************************)
\* render, the default branch (index.js:1432-1450)
ListRender(w) ==
    LET filteredData ==
            GetFilteredData(w.st.allUpdates, w.st.currentView,
                            ToLower(GetSearchQuery(w)), w.st.removeDuplicates,
                            Visibility(w.st))
    IN  [Show(w, "list", CardLinks(w.st, filteredData), CardIds(filteredData))
            EXCEPT !.nav = {}]

\* render when isDetailMode is false (index.js:1412-1450)
RenderNonDetail(w) ==
    IF w.st.isStatsMode THEN StatsRender(w)
    ELSE IF w.st.isTimeSinceMode THEN TimeSinceRender(w)
    ELSE IF w.st.isMaterialGroupsMode THEN MaterialGroupsRender(w)
    ELSE IF w.st.isCompareMode THEN CompareRender(w)
    ELSE ListRender(w)

\* DetailViewManager.getDetailData
GetDetailData(st, target) ==
    IF target = Null THEN Null
    ELSE IF target.type = "year" THEN FindById(YearEntries(st), target.id)
    ELSE FindById(st.allUpdates, target.id)

\* NavigationManager.createVersionNavigation: the previous and next buttons
DetailNav(st, detailData) ==
    LET isYearView == st.detailTarget.type = "year"
        dataSource == IF isYearView THEN YearEntries(st) ELSE st.allUpdates
        id == GenerateCardId(detailData)
        found == {i \in 1..Len(dataSource) : GenerateCardId(dataSource[i]) = id}
    IN  IF found = {} THEN {}
        ELSE LET cur == CHOOSE i \in found : \A j \in found : i <= j
             IN  {Target(IF isYearView THEN "year" ELSE "version",
                         GenerateCardId(dataSource[k])) :
                    k \in {cur - 1, cur + 1} \cap (1..Len(dataSource))}

\* DetailViewManager.render (detail-view.js:66-105)
DetailRender(w, preloadedData) ==
    IF w.st.detailTarget = Null
    THEN RenderNonDetail([w EXCEPT !.st.isDetailMode = FALSE])
    ELSE LET targetData == IF preloadedData # Null THEN preloadedData
                           ELSE GetDetailData(w.st, w.st.detailTarget)
         IN  IF targetData = Null
             THEN [Show(w, "detail-not-found", {}, {}) EXCEPT
                      !.st.isDetailMode = FALSE, !.st.detailTarget = Null,
                      !.nav = {}]
             ELSE [Show(w, "detail", {}, {GenerateCardId(targetData)}) EXCEPT
                      !.nav = DetailNav(w.st, targetData)]

\* render (index.js:1406-1451)
Render(w) ==
    LET a == Did(w, "render")
    IN  IF a.st.isDetailMode THEN DetailRender(a, Null) ELSE RenderNonDetail(a)

\* open without the test of the record that was looked up
OpenUnresolved(w, detailType, detailId, silent, preserveContext) ==
    LET targetData == GetDetailData(w.st, Target(detailType, detailId))
    IN  IF detailId = NoStr THEN w
        ELSE
        LET wasStatsMode == w.st.isStatsMode
            a == [Did(w, "scrollPositionBeforeDetail") EXCEPT
                    !.st.detailReturnContext =
                        IF preserveContext THEN @
                        ELSE IF w.st.isStatsMode THEN "stats"
                        ELSE IF w.st.isCompareMode THEN "compare"
                        ELSE "list",
                    !.st.currentView =
                        IF detailType = "year" THEN "years" ELSE "versions",
                    !.st.detailTarget = Target(detailType, detailId),
                    !.st.isDetailMode = TRUE,
                    !.st.isStatsMode = FALSE,
                    !.st.isCompareMode = FALSE]
            b == IF wasStatsMode THEN StatsReset(a) ELSE a
            c == IF silent THEN b ELSE SaveState(UpdateURL(b, TRUE))
        IN  DetailRender(c, targetData)

\* DetailViewManager.open (detail-view.js:22-64); the effect named
\* scrollPositionBeforeDetail is the assignment of window.scrollY to that field
Open(w, detailType, detailId, silent, preserveContext) ==
    LET targetData == GetDetailData(w.st, Target(detailType, detailId))
    IN  IF detailId = NoStr \/ targetData = Null THEN w
        ELSE
        LET wasStatsMode == w.st.isStatsMode
            a == [Did(w, "scrollPositionBeforeDetail") EXCEPT
                    !.st.detailReturnContext =
                        IF preserveContext THEN @
                        ELSE IF w.st.isStatsMode THEN "stats"
                        ELSE IF w.st.isCompareMode THEN "compare"
                        ELSE "list",
                    !.st.currentView =
                        IF detailType = "year" THEN "years" ELSE "versions",
                    !.st.detailTarget = Target(detailType, detailId),
                    !.st.isDetailMode = TRUE,
                    !.st.isStatsMode = FALSE,
                    !.st.isCompareMode = FALSE]
            b == IF wasStatsMode THEN StatsReset(a) ELSE a
            c == IF silent THEN b ELSE SaveState(UpdateURL(b, TRUE))
        IN  DetailRender(c, targetData)

\* close without the branches of the return context
CloseToList(w) ==
    IF ~w.st.isDetailMode THEN w
    ELSE
    LET a == [w EXCEPT !.st.isDetailMode = FALSE, !.st.detailTarget = Null]
        b == Render([a EXCEPT !.st.isStatsMode = FALSE, !.st.isCompareMode = FALSE])
    IN  SaveState(UpdateURL([b EXCEPT !.st.detailReturnContext = "list"], TRUE))

\* DetailViewManager.close (detail-view.js:108-145)
Close(w) ==
    IF ~w.st.isDetailMode THEN w
    ELSE
    LET returnContext == w.st.detailReturnContext
        a == [w EXCEPT !.st.isDetailMode = FALSE, !.st.detailTarget = Null]
        b == IF returnContext = "stats"
             THEN StatsRender([a EXCEPT !.st.isStatsMode = TRUE,
                                        !.st.isCompareMode = FALSE])
             ELSE IF returnContext = "compare"
             THEN CompareRender([a EXCEPT !.st.isCompareMode = TRUE,
                                          !.st.isStatsMode = FALSE])
             ELSE Render([a EXCEPT !.st.isStatsMode = FALSE,
                                   !.st.isCompareMode = FALSE])
    IN  SaveState(UpdateURL([b EXCEPT !.st.detailReturnContext = "list"], TRUE))

(***************************************************************************)
(* setMode and toggleMode (index.js:692-731)                               *)
(***************************************************************************)
\* setMode without the assignment that clears isStatsMode
SetModeKeepingStats(w, mode) ==
    LET previousMode == GetCurrentMode(w.st)
        a == IF previousMode = "stats" /\ mode # "stats" THEN StatsReset(w) ELSE w
        b == IF previousMode = "time-since" /\ mode # "time-since"
             THEN TimeSinceReset(a) ELSE a
        c == IF previousMode = "material-groups" /\ mode # "material-groups"
             THEN MaterialGroupsReset(b) ELSE b
        d == [c EXCEPT !.st.isCompareMode = (mode = "compare"),
                       !.st.isStatsMode = (mode = "stats") \/ @,
                       !.st.isTimeSinceMode = (mode = "time-since"),
                       !.st.isMaterialGroupsMode = (mode = "material-groups"),
                       !.st.isDetailMode = (mode = "detail")]
        e == IF mode # "detail"
             THEN [d EXCEPT !.st.detailTarget = Null,
                            !.st.detailReturnContext = "list"]
             ELSE d
    IN  Render(SaveState(UpdateURL(e, TRUE)))

SetMode(w, mode) ==
    LET previousMode == GetCurrentMode(w.st)
        a == IF previousMode = "stats" /\ mode # "stats" THEN StatsReset(w) ELSE w
        b == IF previousMode = "time-since" /\ mode # "time-since"
             THEN TimeSinceReset(a) ELSE a
        c == IF previousMode = "material-groups" /\ mode # "material-groups"
             THEN MaterialGroupsReset(b) ELSE b
        d == [c EXCEPT !.st.isCompareMode = (mode = "compare"),
                       !.st.isStatsMode = (mode = "stats"),
                       !.st.isTimeSinceMode = (mode = "time-since"),
                       !.st.isMaterialGroupsMode = (mode = "material-groups"),
                       !.st.isDetailMode = (mode = "detail")]
        e == IF mode # "detail"
             THEN [d EXCEPT !.st.detailTarget = Null,
                            !.st.detailReturnContext = "list"]
             ELSE d
    IN  Render(SaveState(UpdateURL(e, TRUE)))

\* toggleMode without the test of the current mode
ToggleModeAlwaysOn(w, mode) == SetMode(w, mode)

\* toggleMode (index.js:728-731)
ToggleMode(w, mode) ==
    SetMode(w, IF GetCurrentMode(w.st) = mode THEN "list" ELSE mode)

(***************************************************************************)
(* The event handlers of addEventListeners.                                *)
(***************************************************************************)
\* the click handler without the test of the Time Since and Material Groups
\* flags
ToggleSwitchClickUnguarded(w, targetView) ==
    IF w.st.currentView = targetView THEN Did(w, "replaceState")
    ELSE
    LET a == [w EXCEPT !.st.currentView = targetView]
        b == IF a.st.isCompareMode
             THEN RestoreCompareVersions([a EXCEPT !.st.compareVersions = <<Null, Null>>])
             ELSE a
        c == IF b.st.isDetailMode
             THEN [b EXCEPT !.st.isDetailMode = FALSE, !.st.detailTarget = Null,
                            !.st.detailReturnContext = "list"]
             ELSE b
        d == IF c.st.isTimeSinceMode
             THEN TimeSinceReset([c EXCEPT !.st.isTimeSinceMode = FALSE])
             ELSE c
    IN  Render(SaveState(UpdateURL(d, TRUE)))

\* the click handler of the dataset-view toggle (index.js:919-957)
ToggleSwitchClick(w, targetView) ==
    IF w.st.isTimeSinceMode \/ w.st.isMaterialGroupsMode THEN w
    ELSE IF w.st.currentView = targetView THEN Did(w, "replaceState")
    ELSE
    LET a == [w EXCEPT !.st.currentView = targetView]
        b == IF a.st.isCompareMode
             THEN RestoreCompareVersions([a EXCEPT !.st.compareVersions = <<Null, Null>>])
             ELSE a
        c == IF b.st.isDetailMode
             THEN [b EXCEPT !.st.isDetailMode = FALSE, !.st.detailTarget = Null,
                            !.st.detailReturnContext = "list"]
             ELSE b
        d == IF c.st.isTimeSinceMode
             THEN TimeSinceReset([c EXCEPT !.st.isTimeSinceMode = FALSE])
             ELSE c
    IN  Render(SaveState(UpdateURL(d, TRUE)))

CheckboxKeys == {"removeDuplicates", "showBlocks", "showItems"}

\* the change handler of a filter checkbox (index.js:1108-1128)
CheckboxChange(w, key, checked) ==
    LET a == SaveState([w EXCEPT !.st[key] = checked])
    IN  IF a.st.isCompareMode THEN CompareRenderCards(a)
        ELSE IF a.st.isStatsMode
        THEN \* renderChart, then renderContentTable
             IF ~a.stats.data THEN [a EXCEPT !.stats.chart = FALSE]
             ELSE IF ~a.stats.elements THEN a    \* this.elements is null: TypeError
             ELSE [a EXCEPT !.stats.chart = TRUE,
                            !.links = IF a.content = "stats" THEN StatsLinks(a.st) ELSE @]
        ELSE IF a.st.isTimeSinceMode THEN TimeSinceRender(a)
        ELSE IF a.st.isDetailMode THEN DetailRender(a, Null)
        ELSE Render(a)

\* what follows setSearchQuery in the clear-button handler (index.js:882-897)
RenderAfterClear(w) ==
    IF w.st.isCompareMode THEN CompareRenderCards(w)
    ELSE IF w.st.isStatsMode THEN StatsRender(w)
    ELSE IF w.st.isTimeSinceMode THEN TimeSinceRender(w)
    ELSE IF w.st.isDetailMode THEN DetailRender(w, Null)
    ELSE Render(w)

SearchClear(w) == RenderAfterClear(UpdateURL([w EXCEPT !.search = NoStr], FALSE))

(***************************************************************************)
(* Utils.debounce (utils.js:67-77).  The closure holds timeout, the id of   *)
(* the timeout set last (0: undefined); pending holds the timeouts that are *)
(* set and have neither run nor been cleared, each with the ticks left of   *)
(* its delay.  idle counts the ticks since the last search input and calls  *)
(* the runs of the callback since then.                                    *)
(***************************************************************************)
\* CONFIG.DEBOUNCE_DELAY, in ticks
DebounceDelay == 1

NoDebounce == [timeout |-> 0, pending |-> {}, idle |-> DebounceDelay, calls |-> 0]

\* clearTimeout(id)
ClearTimeout(d, id) == [d EXCEPT !.pending = {t \in @ : t.id # id}]

\* timeout = setTimeout(later, wait), with an id that no pending timeout has
SetTimeout(d) ==
    LET used == {t.id : t \in d.pending}
        id == CHOOSE n \in 1..(Cardinality(used) + 1) :
                  n \notin used /\ \A m \in 1..(n - 1) : m \in used
    IN  [d EXCEPT !.pending = @ \cup {[id |-> id, left |-> DebounceDelay]},
                  !.timeout = id]

\* executedFunction without the clearTimeout in front of setTimeout
ExecutedFunctionStacking(d) == SetTimeout(d)

\* executedFunction: clearTimeout(timeout); timeout = setTimeout(later, wait)
ExecutedFunction(d) == SetTimeout(ClearTimeout(d, d.timeout))

\* handleSearchInput (index.js:864-870); the debounce timeout is restarted
SearchInput(w, value) ==
    IF w.st.isStatsMode \/ w.st.isTimeSinceMode \/ w.st.isMaterialGroupsMode THEN w
    ELSE [w EXCEPT !.search = value,
                   !.debounce = ExecutedFunction([@ EXCEPT !.idle = 0, !.calls = 0])]

\* the debounced search callback (index.js:844-862)
SearchDebounced(w) ==
    LET a == UpdateURL([w EXCEPT !.debounce.calls = IF @ < 2 THEN @ + 1 ELSE @], FALSE)
    IN  IF a.st.isCompareMode THEN CompareRenderCards(a)
        ELSE IF a.st.isStatsMode \/ a.st.isTimeSinceMode \/ a.st.isMaterialGroupsMode
        THEN a
        ELSE IF a.st.isDetailMode THEN DetailRender(a, Null)
        ELSE Render(a)

\* later, run for the timeout id: clearTimeout(timeout); func(...args)
Later(w, id) ==
    LET ran == [w.debounce EXCEPT !.pending = {t \in @ : t.id # id}]
    IN  SearchDebounced([w EXCEPT !.debounce = ClearTimeout(ran, ran.timeout)])

\* the change handler of a compare selector (unnamed/part_002:640-656)
CompareSelect(w, slot, cardId) ==
    LET a == [w EXCEPT !.st.compareVersions[slot] = ResolveId(w.selectSource, cardId)]
    IN  CompareRenderCards(SaveState(UpdateURL(a, FALSE)))

\* rememberCollapsed (index.js:72-81)
RememberCollapsed(w, key, isCollapsed) ==
    SaveState([w EXCEPT !.st.collapsedSections =
                  {e \in @ : e[1] # key} \cup {<<key, isCollapsed>>}])

(***************************************************************************)
(* Construction and the initial load (index.js:17-65, 157-225, 1546-1611)  *)
(***************************************************************************)
\* new MinecraftUpdatesApp() on a page with this storage entry and this URL
Construct(entry, params) ==
    RestoreFromURL(RestoreState(
        [phase |-> "loading", load |-> NoneFetched, st |-> DefaultState, tmp |-> DefaultTmp,
         storage |-> entry, url |-> params, search |-> NoStr, debounce |-> NoDebounce,
         stats |-> DefaultStats, ts |-> DefaultTimeSince, timers |-> {},
         mg |-> DefaultMaterialGroups, content |-> "none", links |-> {},
         cards |-> {}, nav |-> {}, selectSource |-> <<>>, groups |-> NoGroups,
         micro |-> <<>>, ok |-> TRUE, raised |-> FALSE, effects |-> <<>>]))

\* init after restoreCompareVersions: the pending detail target is opened,
\* or the mode restored is rendered (index.js:198-218)
RenderLoaded(a) ==
    LET pendingDetailTarget ==
            IF a.tmp.urlDetailTarget # Null THEN a.tmp.urlDetailTarget
            ELSE a.tmp.savedDetailTarget
    IN  IF a.st.isDetailMode /\ pendingDetailTarget # Null
        THEN [Open(a, pendingDetailTarget.type, pendingDetailTarget.id, TRUE, TRUE)
                 EXCEPT !.tmp.urlDetailTarget = Null,
                        !.tmp.savedDetailTarget = Null]
        ELSE IF a.st.isTimeSinceMode THEN TimeSinceRender(a)
        ELSE IF a.st.isMaterialGroupsMode THEN MaterialGroupsRender(a)
        ELSE Render(a)

\* init behind the awaited fetches, and the updateURL(false) that follows it
InitLoaded(w) ==
    UpdateURL(
        RenderLoaded(
            RestoreCompareVersions(
                [w EXCEPT !.phase = "ready",
                          !.load = [AllFetched EXCEPT
                                       !.arrived = 1..Len(w.load.updatesData),
                                       !.updatesData = w.load.updatesData],
                          !.st.allUpdates = SortUpdates(w.load.updatesData)])),
        FALSE)

\* the catch branch of init with the files that had arrived installed
InitFailedKeepingArrived(w) ==
    UpdateURL([Show(w, "load-error", {}, {}) EXCEPT
                  !.phase = "failed",
                  !.st.allUpdates =
                      SortUpdates(SelectSeq(FetchedUpdates,
                                            LAMBDA u : \E file \in w.load.arrived :
                                                           FetchedUpdates[file] = u))],
              FALSE)

\* the catch branch of init, and the updateURL(false) that follows it
InitFailed(w) ==
    UpdateURL([Show(w, "load-error", {}, {}) EXCEPT !.phase = "failed"], FALSE)

(***************************************************************************)
(* The state machine.                                                      *)
(***************************************************************************)
\* the page is left as the handler left it
LeftAs(w) ==
    /\ w.ok
    /\ phase' = w.phase
    /\ load' = w.load
    /\ state' = w.st
    /\ tmp' = w.tmp
    /\ storage' = w.storage
    /\ url' = w.url
    /\ search' = w.search
    /\ debounce' = w.debounce
    /\ stats' = w.stats
    /\ timeSince' = w.ts
    /\ timers' = w.timers
    /\ materialGroups' = w.mg
    /\ content' = w.content
    /\ links' = w.links
    /\ cards' = w.cards
    /\ nav' = w.nav
    /\ selectSource' = w.selectSource
    /\ groups' = w.groups

\* a handler ran to its end, continuations behind resolved promises included
Becomes(w0) == LeftAs(RunMicrotasks(w0))

StartsAs(w) ==
    /\ phase = w.phase /\ load = w.load /\ state = w.st /\ tmp = w.tmp /\ storage = w.storage
    /\ url = w.url /\ search = w.search /\ debounce = w.debounce
    /\ stats = w.stats /\ timeSince = w.ts /\ timers = w.timers
    /\ materialGroups = w.mg /\ content = w.content /\ links = w.links
    /\ cards = w.cards /\ nav = w.nav /\ selectSource = w.selectSource
    /\ groups = w.groups

\* the search texts a user types
SearchInputs == {<<"a">>}

\* the section whose collapse state is followed
CollapseKeys == {<<GenerateCardId(LoadedUpdates[1]), "blocks">>}

\* a first visit (nothing stored, no query parameters) whose load has succeeded
Init == StartsAs(RunMicrotasks(InitLoaded(Construct(NoEntry, NoParams))))

LoadDone == phase = "loading" /\ Becomes(InitLoaded(World))

\* the load fails at its first fetch
LoadFail ==
    /\ phase = "loading"
    /\ Becomes(InitFailed([World EXCEPT !.load.index = "failed"]))

\* the fetches of the load one by one: the index file arrives and the file
\* fetches start
IndexFetchDone ==
    /\ phase = "loading"
    /\ load.index = "pending"
    /\ Becomes([World EXCEPT !.load.index = "done"])

IndexFetchFail ==
    /\ phase = "loading"
    /\ load.index = "pending"
    /\ Becomes(InitFailed([World EXCEPT !.load.index = "failed"]))

\* a file arrives; Promise.all resolves with the last one, and a file that
\* arrives after Promise.all was rejected changes nothing
FileFetchDone ==
    \E file \in Files \ (load.arrived \cup load.failed) :
        /\ load.index = "done"
        /\ LET w == [World EXCEPT !.load.arrived = @ \cup {file}]
           IN  Becomes(IF phase = "loading" /\ w.load.arrived = Files
                       THEN InitLoaded(w)
                       ELSE w)

\* a file fetch fails; Promise.all rejects with the first failure
FileFetchFail ==
    \E file \in Files \ (load.arrived \cup load.failed) :
        /\ load.index = "done"
        /\ LET w == [World EXCEPT !.load.failed = @ \cup {file}]
           IN  Becomes(IF phase = "loading" THEN InitFailed(w) ELSE w)

\* the page is loaded again (by the browser or by the popstate handler) and
\* its load succeeds
Reload ==
    Becomes(InitLoaded([Construct(storage, url) EXCEPT !.groups.stored = groups.stored]))

ClickModeButton ==
    \E mode \in {"compare", "stats", "time-since", "material-groups"} :
        Becomes(ToggleMode(World, mode))

ClickCompareButton == Becomes(ToggleMode(World, "compare"))

CallSetMode == \E mode \in Modes : Becomes(SetMode(World, mode))

CallToggleMode == \E mode \in Modes : Becomes(ToggleMode(World, mode))

ClickToggleSwitch == \E view \in Views : Becomes(ToggleSwitchClick(World, view))

ChangeCheckbox(key) == Becomes(CheckboxChange(World, key, ~state[key]))

TypeSearch ==
    /\ ~(state.isStatsMode \/ state.isTimeSinceMode \/ state.isMaterialGroupsMode)
    /\ \E value \in SearchInputs \cup {NoStr} :
          value # search /\ Becomes(SearchInput(World, value))

\* a timeout whose delay has run out is run
DebounceFire ==
    \E t \in debounce.pending : t.left = 0 /\ Becomes(Later(World, t.id))

\* a tick of the clock while a timeout is waiting for its delay
Tick ==
    /\ \E t \in debounce.pending : t.left > 0
    /\ debounce' = [debounce EXCEPT
                       !.pending = {[t EXCEPT !.left = IF @ > 0 THEN @ - 1 ELSE 0] : t \in @},
                       !.idle = IF @ < DebounceDelay THEN @ + 1 ELSE @]
    /\ UNCHANGED <<phase, load, state, tmp, storage, url, search, stats, timeSince,
                   timers, materialGroups, content, links, cards, nav, selectSource,
                   groups>>

ClickSearchClear == search # NoStr /\ Becomes(SearchClear(World))

ChangeCompareSelector ==
    /\ content = "compare"
    /\ \E slot \in {1, 2}, cardId \in CardIds(selectSource) \cup {NoStr} :
          Becomes(CompareSelect(World, slot, cardId))

ClickDetailLink ==
    \E t \in links : Becomes(Open(World, t.type, t.id, FALSE, FALSE))

ClickDetailClose == content = "detail" /\ Becomes(Close(World))

ClickNavButton ==
    /\ state.isDetailMode
    /\ \E t \in nav : Becomes(Open(World, t.type, t.id, FALSE, FALSE))

ClickSectionTitle ==
    \E key \in CollapseKeys, isCollapsed \in BOOLEAN :
        /\ key[1] \in cards
        /\ Becomes(RememberCollapsed(World, key, isCollapsed))

\* a click on the title of a material group section
ClickGroupTitle ==
    \E sectionId \in GroupSections :
        /\ content = "material-groups"
        /\ Becomes(ToggleGroupSection(World, sectionId))

StatsFetchDone ==
    /\ stats.pending > 0
    /\ Becomes(StatsContinue([World EXCEPT !.stats.pending = @ - 1,
                                           !.stats.data = TRUE]))

StatsFetchFail ==
    /\ stats.pending > 0
    /\ Becomes(StatsFailed([World EXCEPT !.stats.pending = @ - 1]))

TimeSinceFetchDone ==
    /\ timeSince.pending > 0
    /\ Becomes(TimeSinceContinue([World EXCEPT !.ts.pending = @ - 1,
                                               !.ts.data = TRUE]))

TimeSinceFetchFail ==
    /\ timeSince.pending > 0
    /\ Becomes(TimeSinceFailed([World EXCEPT !.ts.pending = @ - 1]))

MaterialGroupsFetchDone ==
    /\ materialGroups.pending > 0
    /\ Becomes(MaterialGroupsContinue([World EXCEPT !.mg.pending = @ - 1,
                                                    !.mg.data = TRUE]))

MaterialGroupsFetchFail ==
    /\ materialGroups.pending > 0
    /\ Becomes(MaterialGroupsFailed([World EXCEPT !.mg.pending = @ - 1]))

\* the mode machine with its lazy datasets, the dataset views and the
\* detail view
Next ==
    \/ ClickModeButton
    \/ ClickToggleSwitch
    \/ ClickDetailLink
    \/ ClickDetailClose
    \/ ClickNavButton
    \/ StatsFetchDone
    \/ StatsFetchFail
    \/ TimeSinceFetchDone
    \/ TimeSinceFetchFail
    \/ MaterialGroupsFetchDone
    \/ MaterialGroupsFetchFail

Spec == Init /\ [][Next]_vars

\* setMode and toggleMode called in any order
NextModes ==
    \/ CallSetMode
    \/ CallToggleMode
    \/ StatsFetchDone
    \/ StatsFetchFail
    \/ TimeSinceFetchDone
    \/ TimeSinceFetchFail
    \/ MaterialGroupsFetchDone
    \/ MaterialGroupsFetchFail

SpecModes == Init /\ [][NextModes]_vars

\* the filter checkboxes in every mode
NextFilter ==
    \/ ClickModeButton
    \/ (\E key \in CheckboxKeys : ChangeCheckbox(key))
    \/ StatsFetchDone
    \/ StatsFetchFail
    \/ TimeSinceFetchDone
    \/ TimeSinceFetchFail
    \/ MaterialGroupsFetchDone
    \/ MaterialGroupsFetchFail

SpecFilter == Init /\ [][NextFilter]_vars

\* browsing and comparing without the lazily fetched modes, across reloads
NextBrowse ==
    \/ Reload
    \/ ClickCompareButton
    \/ ClickToggleSwitch
    \/ ChangeCheckbox("removeDuplicates")
    \/ ChangeCompareSelector
    \/ ClickDetailLink
    \/ ClickDetailClose
    \/ ClickNavButton
    \/ ClickSectionTitle

SpecBrowse == Init /\ [][NextBrowse]_vars

\* searching, in the list, in Compare and around the lazy modes
NextSearch ==
    \/ TypeSearch
    \/ Tick
    \/ DebounceFire
    \/ ClickSearchClear
    \/ ClickModeButton
    \/ StatsFetchDone
    \/ StatsFetchFail
    \/ TimeSinceFetchDone
    \/ TimeSinceFetchFail
    \/ MaterialGroupsFetchDone
    \/ MaterialGroupsFetchFail

SpecSearch == Init /\ [][NextSearch]_vars

\* a timeout of the search debounce is due: DebounceFire is enabled
TimeoutDue == \E t \in debounce.pending : t.left = 0

\* the callback of the search debounce runs in this step: a DebounceFire step
CallbackRuns == debounce'.calls > debounce.calls

\* the same with a clock that goes on and with timeouts that are run when
\* due: WF_vars(Tick) and WF_vars(DebounceFire), the second written with the
\* enabling condition and the effect of DebounceFire on the debounce
SpecSearchFair ==
    /\ SpecSearch
    /\ WF_vars(Tick)
    /\ ([]<>(~TimeoutDue) \/ []<><<CallbackRuns>>_vars)

(***************************************************************************)
(* A session in which the key-value store stops working.                   *)
(***************************************************************************)
\* from here on every getItem, setItem and removeItem throws
StoreBreaks ==
    /\ storage.kind # "broken"
    /\ Becomes([World EXCEPT !.storage = [kind |-> "broken"]])

InitStore ==
    \E entry \in {NoEntry, [kind |-> "broken"]} :
        StartsAs(RunMicrotasks(InitLoaded(Construct(entry, NoParams))))

NextStore ==
    \/ StoreBreaks
    \/ ClickModeButton
    \/ ChangeCheckbox("showItems")
    \/ ClickGroupTitle
    \/ StatsFetchDone
    \/ StatsFetchFail
    \/ TimeSinceFetchDone
    \/ TimeSinceFetchFail
    \/ MaterialGroupsFetchDone
    \/ MaterialGroupsFetchFail

SpecStore == InitStore /\ [][NextStore]_vars

(***************************************************************************)
(* Loading a page on which a session was left earlier.                     *)
(***************************************************************************)
\* the ids the dataset knows, per view, and one that no record has
VersionIds == CardIds(LoadedUpdates)

YearIds == CardIds(GroupByYear(LoadedUpdates))

GhostId == <<"z">>

\* the view states an earlier session can have saved
SavedStates ==
    LET base == [DefaultState EXCEPT !.allUpdates = LoadedUpdates]
        custom == [base EXCEPT !.removeDuplicates = FALSE, !.showBlocks = FALSE,
                               !.collapsedSections =
                                   {<<k, TRUE>> : k \in CollapseKeys}]
        ofView(st, view) == [st EXCEPT !.currentView = view]
        selections(st) ==
            LET dataSource == DataSource(st)
            IN  {<<Null, Null>>, <<dataSource[1], dataSource[Len(dataSource)]>>}
        inMode(st, mode) ==
            [st EXCEPT !.isCompareMode = (mode = "compare"),
                       !.isStatsMode = (mode = "stats"),
                       !.isTimeSinceMode = (mode = "time-since"),
                       !.isMaterialGroupsMode = (mode = "material-groups")]
        inDetail(st) ==
            {[st EXCEPT !.isDetailMode = TRUE,
                        !.currentView = IF t.type = "year" THEN "years" ELSE "versions",
                        !.detailTarget = t,
                        !.detailReturnContext = c] :
                t \in CardLinks(st, DataSource(st)), c \in {"list", "stats"}}
        viewed == {ofView(st, view) : st \in {base, custom}, view \in Views}
        selected == UNION {{[st EXCEPT !.compareVersions = sel] : sel \in selections(st)} :
                              st \in viewed}
    IN  {inMode(st, mode) : st \in selected, mode \in Modes \ {"detail"}}
           \cup UNION {inDetail(st) : st \in viewed}

StoredEntries ==
    {NoEntry} \cup {[kind |-> "json", value |-> Snapshot(st)] : st \in SavedStates}

ModeParams == {"compare", "stats", "time-since", "material-groups", "detail"}

\* the query strings the page is opened with
UrlInputs ==
    LET views == {[NoParams EXCEPT !.view = v] : v \in {"", "versions", "years", "month"}}
        plain(p) == {[p EXCEPT !.mode = m] :
                        m \in {"", "stats", "time-since", "material-groups",
                               "compare", "detail", "tabs"}}
        compare(p) == {[p EXCEPT !.mode = "compare", !.compare1 = a, !.compare2 = b] :
                          a \in VersionIds \cup YearIds, b \in {NoStr, GhostId}}
        detail(p) == {[p EXCEPT !.mode = "detail", !.detailType = t, !.detailId = id] :
                         t \in {"", "version", "year"},
                         id \in VersionIds \cup YearIds \cup {GhostId}}
    IN  UNION {plain(p) \cup compare(p) \cup detail(p) : p \in views}

InitLoad ==
    \E entry \in StoredEntries, params \in UrlInputs :
        StartsAs(Construct(entry, params))

NextLoad ==
    \/ LoadDone
    \/ LoadFail
    \/ StatsFetchDone
    \/ StatsFetchFail
    \/ TimeSinceFetchDone
    \/ TimeSinceFetchFail
    \/ MaterialGroupsFetchDone
    \/ MaterialGroupsFetchFail

SpecLoad == InitLoad /\ [][NextLoad]_vars

(***************************************************************************)
(* The sort of the load, over the lists of records a fetch can return.     *)
(***************************************************************************)
MaxFetched == 4

DatedRecord(name, date) ==
    [name |-> name, java |-> <<"1">>, type |-> "major", release_date |-> date,
     added |-> [blocks |-> <<>>, items |-> <<>>]]

\* A: null, B: "2021", C: "2021-06-01", D: "2020-01-01"
RecordA == DatedRecord(<<"a">>, NullDate)
RecordB == DatedRecord(<<"b">>, YearOnly(2021))
RecordC == DatedRecord(<<"c">>, FullDate(2021, 6, 1))
RecordD == DatedRecord(<<"d">>, FullDate(2020, 1, 1))

\* a second upcoming record, a later year, and two dates that do not parse
DatedRecords ==
    {RecordA, RecordB, RecordC, RecordD,
     DatedRecord(<<"e">>, NullDate),
     DatedRecord(<<"f">>, YearOnly(2022)),
     DatedRecord(<<"g">>, BadDate),
     DatedRecord(<<"h">>, BadDate)}

\* the lists without repetition of at most MaxFetched of these records
FetchedLists ==
    UNION {{list \in [1..n -> DatedRecords] :
               \A i \in 1..n, j \in 1..n : i # j => list[i] # list[j]} :
           n \in 1..MaxFetched}

InitSort ==
    \E updatesData \in FetchedLists :
        StartsAs([Construct(NoEntry, NoParams) EXCEPT !.load.updatesData = updatesData])

NextSort ==
    \/ LoadDone
    \/ LoadFail

SpecSort == InitSort /\ [][NextSort]_vars

(***************************************************************************)
(* The year groups, over the lists of records a fetch can return.          *)
(***************************************************************************)
ContentRecord(name, date, blocks, items) ==
    [name |-> name, java |-> <<"1">>, type |-> "major", release_date |-> date,
     added |-> [blocks |-> blocks, items |-> items]]

\* "2021-03-01" and "2021-09-01", one block each
March2021 == ContentRecord(<<"m">>, FullDate(2021, 3, 1), <<ItemA>>, <<>>)
September2021 == ContentRecord(<<"s">>, FullDate(2021, 9, 1), <<ItemB>>, <<>>)

\* a bare year, another year, no date, and a date that does not parse
ContentRecords ==
    {March2021, September2021,
     ContentRecord(<<"y">>, YearOnly(2021), <<>>, <<ItemB>>),
     ContentRecord(<<"o">>, FullDate(2020, 1, 1), <<ItemA, ItemB>>, <<ItemA>>),
     ContentRecord(<<"u">>, NullDate, <<ItemA>>, <<>>),
     ContentRecord(<<"x">>, BadDate, <<ItemB>>, <<ItemA>>)}

ContentLists ==
    UNION {{list \in [1..n -> ContentRecords] :
               \A i \in 1..n, j \in 1..n : i # j => list[i] # list[j]} :
           n \in 1..MaxFetched}

InitGroup ==
    \E updatesData \in ContentLists :
        StartsAs([Construct(NoEntry, NoParams) EXCEPT !.load.updatesData = updatesData])

\* the load, the switch between the versions and the year groups, and the
\* checkbox that hides the blocks
NextGroup ==
    \/ LoadDone
    \/ ClickToggleSwitch
    \/ ChangeCheckbox("showBlocks")

SpecGroup == InitGroup /\ [][NextGroup]_vars

(***************************************************************************)
(* The filter, over lists of items, search queries and the duplicates flag. *)
(***************************************************************************)
MaxItems == 2

TaggedItem(name, identifier, types, tags) ==
    [name |-> name, identifier |-> identifier, types |-> types, tags |-> tags]

\* names and identifiers in both cases, a type in upper case, a tag, the
\* type "hidden" and the type "Hidden"
FilterableItems ==
    {ItemA, ItemB,
     TaggedItem(<<"A", "y">>, <<"c">>, <<<<"R">>>>, <<>>),
     TaggedItem(<<"b">>, <<"Y", "a">>, <<>>, <<<<"r">>>>),
     TaggedItem(<<"C", "x">>, <<"c", "x">>, <<<<"H", "i", "d", "d", "e", "n">>>>, <<>>)}

ItemLists ==
    UNION {{list \in [1..n -> FilterableItems] :
               \A i \in 1..n, j \in 1..n : i # j => list[i] # list[j]} :
           n \in 0..MaxItems}

\* "", "a", "X", "#r", "a #R", "#hidden", "#", "y  #r"
FilterQueries ==
    {NoStr, <<"a">>, <<"X">>, <<"#", "r">>, <<"a", " ", "#", "R">>,
     <<"#", "h", "i", "d", "d", "e", "n">>, <<"#">>,
     <<"y", " ", " ", "#", "r">>}

\* a page whose address carries the query and whose snapshot carries the
\* flag; the fetch returns one record with the items as its blocks
InitItems ==
    \E list \in ItemLists, query \in FilterQueries, removeDuplicates \in BOOLEAN :
        StartsAs([Construct([kind |-> "json",
                             value |-> Snapshot([DefaultState EXCEPT
                                          !.removeDuplicates = removeDuplicates])],
                            [NoParams EXCEPT !.search = query])
                     EXCEPT !.load.updatesData =
                         <<ContentRecord(<<"m">>, FullDate(2021, 3, 1), list, <<ItemA>>)>>])

NextItems ==
    \/ LoadDone
    \/ ChangeCheckbox("removeDuplicates")
    \/ ChangeCheckbox("showBlocks")
    \/ ChangeCheckbox("showItems")
    \/ ClickSearchClear

SpecItems == InitItems /\ [][NextItems]_vars

(***************************************************************************)
(* The parse of the search query, over short queries.                      *)
(***************************************************************************)
MaxQueryLen == 3

\* an upper-case letter, a lower-case one, the tag sign, the blank, the
\* hyphen and a character that is neither a word character nor a hyphen
QueryChars == {"E", "b", "#", " ", "-", "!"}

\* "Ender #rare #boss"
EnderRareBoss ==
    <<"E", "n", "d", "e", "r", " ", "#", "r", "a", "r", "e", " ",
      "#", "b", "o", "s", "s">>

QueryInputs ==
    UNION {[1..n -> QueryChars] : n \in 0..MaxQueryLen} \cup {EnderRareBoss}

\* a page opened with the query in its address
InitQuery ==
    \E query \in QueryInputs :
        StartsAs(Construct(NoEntry, [NoParams EXCEPT !.search = query]))

NextQuery ==
    \/ LoadDone
    \/ ClickSearchClear

SpecQuery == InitQuery /\ [][NextQuery]_vars

(***************************************************************************)
(* The card ids, over records with short labels.                           *)
(***************************************************************************)
MaxLabelLen == 2

\* a lower-case letter, an upper-case one, a digit, the blank, the hyphen
\* and the underscore
LabelChars == {"a", "Z", "7", " ", "-", "_"}

Labels == UNION {[1..n -> LabelChars] : n \in 0..MaxLabelLen}

\* a record with a name and a version label, either of which may be empty
LabelledRecord(name, java) ==
    [name |-> name, java |-> java, type |-> "major",
     release_date |-> FullDate(2021, 3, 1),
     added |-> [blocks |-> <<ItemA>>, items |-> <<>>]]

\* the same with a display name in front
DisplayedRecord(display_name, name, java) ==
    [display_name |-> display_name, name |-> name, java |-> java, type |-> "major",
     release_date |-> FullDate(2021, 3, 1),
     added |-> [blocks |-> <<ItemA>>, items |-> <<>>]]

LabelledRecords ==
    {LabelledRecord(name, java) : name \in Labels, java \in {NoStr, <<"1", ".", "2">>}}
    \cup {DisplayedRecord(<<"9", "!">>, name, NoStr) : name \in Labels}

\* one fetched record, its card shown after the load
InitCardId ==
    \E data \in LabelledRecords :
        StartsAs([Construct(NoEntry, NoParams) EXCEPT !.load.updatesData = <<data>>])

NextCardId ==
    \/ LoadDone
    \/ ClickDetailLink
    \/ ClickDetailClose

SpecCardId == InitCardId /\ [][NextCardId]_vars

(***************************************************************************)
(* The initial load, fetch by fetch.                                       *)
(***************************************************************************)
InitFetch ==
    \E entry \in {e \in StoredEntries :
                     e.kind = "json" => /\ e.value.removeDuplicates
                                        /\ e.value.currentView = "versions"},
       params \in {[NoParams EXCEPT !.mode = m] :
                      m \in {"", "stats", "time-since", "material-groups"}}
                      \cup {[NoParams EXCEPT !.mode = "compare",
                                             !.compare1 = GenerateCardId(LoadedUpdates[1])]} :
        StartsAs(Construct(entry, params))

NextFetch ==
    \/ IndexFetchDone
    \/ IndexFetchFail
    \/ FileFetchDone
    \/ FileFetchFail
    \/ StatsFetchDone
    \/ StatsFetchFail
    \/ TimeSinceFetchDone
    \/ TimeSinceFetchFail
    \/ MaterialGroupsFetchDone
    \/ MaterialGroupsFetchFail

SpecFetch == InitFetch /\ [][NextFetch]_vars

(***************************************************************************)
(* A user who does not wait for the initial load: init attaches the        *)
(* listeners before its first await (index.js:158).                        *)
(***************************************************************************)
InitEarly == StartsAs(Construct(NoEntry, NoParams))

NextEarly ==
    \/ phase = "loading" /\ ClickModeButton
    \/ phase = "loading" /\ ClickToggleSwitch
    \/ phase = "loading" /\ ChangeCheckbox("showItems")
    \/ LoadDone
    \/ LoadFail
    \/ StatsFetchDone
    \/ StatsFetchFail
    \/ TimeSinceFetchDone
    \/ TimeSinceFetchFail
    \/ MaterialGroupsFetchDone
    \/ MaterialGroupsFetchFail

SpecEarly == InitEarly /\ [][NextEarly]_vars

(***************************************************************************)
(* A user who goes on after the initial load has failed.                   *)
(***************************************************************************)
InitAfterFailure ==
    StartsAs(InitFailed([Construct(NoEntry, NoParams) EXCEPT !.load.index = "failed"]))

NextAfterFailure ==
    \/ ClickModeButton
    \/ ClickToggleSwitch
    \/ ChangeCheckbox("showItems")
    \/ TypeSearch
    \/ Tick
    \/ DebounceFire
    \/ StatsFetchDone
    \/ StatsFetchFail
    \/ TimeSinceFetchDone
    \/ TimeSinceFetchFail
    \/ MaterialGroupsFetchDone
    \/ MaterialGroupsFetchFail

SpecAfterFailure == InitAfterFailure /\ [][NextAfterFailure]_vars

(***************************************************************************)
(* Loading a page whose stored entry is not what saveState wrote.          *)
(***************************************************************************)
\* the values saveState gives detailReturnContext (detail-view.js:32-36, 135)
ReturnContexts == {"list", "stats", "compare"}

\* a snapshot that differs from the defaults in every field
FullSnapshot ==
    LET years == GroupByYear(LoadedUpdates)
    IN  Snapshot([DefaultState EXCEPT
                     !.currentView = "years",
                     !.removeDuplicates = FALSE,
                     !.showBlocks = FALSE,
                     !.showItems = FALSE,
                     !.collapsedSections = {<<k, TRUE>> : k \in CollapseKeys},
                     !.compareVersions = <<years[1], years[Len(years)]>>,
                     !.isCompareMode = TRUE,
                     !.detailReturnContext = "stats"])

\* the object an array ["x"] is when it stands where the map is expected:
\* the key 0 with a value that reads as true (index.js:95)
ArrayAsMap == {<<<<<<"0">>, "">>, TRUE>>}

\* what an object without an id gives when its type and id are read
TargetWithoutId == Target("version", NoStr)

\* entries that were damaged or edited: a text that is not JSON, and JSON in
\* which one field has a value saveState never writes
DamagedEntries ==
    LET edited(value, mistyped) ==
            [kind |-> "edited", value |-> value, mistyped |-> mistyped]
        typed == {edited(FullSnapshot, [f \in {field} |-> "string"]) :
                     field \in TypeTested \cup {"collapsedSections"}}
        flags == {edited([FullSnapshot EXCEPT !.isCompareMode = FALSE, ![field] = TRUE],
                         [f \in {"isCompareMode"} |-> "string"]) :
                     field \in {"isStatsMode", "isTimeSinceMode", "isMaterialGroupsMode",
                                "isDetailMode"}}
    IN  {[kind |-> "text"]}
           \cup typed \cup flags
           \cup {edited([FullSnapshot EXCEPT !.collapsedSections = ArrayAsMap],
                        [collapsedSections |-> "array"]),
                 edited([FullSnapshot EXCEPT !.detailTarget = TargetWithoutId],
                        [detailTarget |-> "object"]),
                 edited([FullSnapshot EXCEPT !.detailTarget = TargetWithoutId,
                                             !.isCompareMode = FALSE,
                                             !.isDetailMode = TRUE],
                        [detailTarget |-> "object"]),
                 edited([FullSnapshot EXCEPT !.detailReturnContext = "tabs"], <<>>),
                 edited([FullSnapshot EXCEPT !.currentView = "month"], <<>>)}

InitRestore ==
    \E entry \in DamagedEntries \cup {NoEntry},
       params \in {[NoParams EXCEPT !.mode = m] :
                      m \in {"", "stats", "time-since", "material-groups",
                             "compare", "detail"}} :
        StartsAs(Construct(entry, params))

SpecRestore == InitRestore /\ [][NextLoad]_vars

(***************************************************************************)
(* Properties.                                                             *)
(***************************************************************************)
ModeFlags == {"isCompareMode", "isStatsMode", "isTimeSinceMode",
              "isMaterialGroupsMode", "isDetailMode"}

FlagsSet(st) == {f \in ModeFlags : st[f]}

FlagOf(mode) ==
    CASE mode = "compare" -> "isCompareMode"
      [] mode = "stats" -> "isStatsMode"
      [] mode = "time-since" -> "isTimeSinceMode"
      [] mode = "material-groups" -> "isMaterialGroupsMode"
      [] mode = "detail" -> "isDetailMode"
      [] OTHER -> "none"

\* C1: after any sequence of setMode and toggleMode calls from the initial
\* state at most one of the five mode flags is true, and getCurrentMode
\* names the mode whose flag it is (list when all five are false).
C1_ModeExclusivity ==
    /\ Cardinality(FlagsSet(state)) <= 1
    /\ FlagsSet(state) = {FlagOf(GetCurrentMode(state))} \ {"none"}

\* a second lazy mode is active after an earlier one had fetched its data
C1_Witness ==
    /\ state.isMaterialGroupsMode
    /\ stats.data
    /\ GetCurrentMode(state) = "material-groups"

\* C2: in every reachable state of the application at most one of the five
\* mode flags is true, whichever operation wrote the flags last.
C2_AtMostOneFlag == Cardinality(FlagsSet(state)) <= 1

\* C3: a lazy fetch that resolves after its mode was left is discarded: the
\* manager's cache, the displayed content and the timers stay as they were.
C3_LateResultDiscarded ==
    [][/\ (StatsFetchDone /\ ~state.isStatsMode) =>
              (stats'.data = stats.data /\ content' = content)
       /\ (TimeSinceFetchDone /\ ~state.isTimeSinceMode) =>
              (timeSince'.data = timeSince.data /\ content' = content
               /\ timers' = timers)
       /\ (MaterialGroupsFetchDone /\ ~state.isMaterialGroupsMode) =>
              (materialGroups'.data = materialGroups.data /\ content' = content)]_vars

\* C4: whenever TimeSince is not the active mode no time-since interval is
\* running.
C4_NoTimerOutsideTimeSince == ~state.isTimeSinceMode => timers = {}

\* C5: at most one time-since interval is live, and a live interval is the
\* one recorded in state.updateInterval.
C5_SingleTimer ==
    /\ Cardinality(timers) <= 1
    /\ timers \subseteq {timeSince.updateInterval}

SelectedIds(st) == <<IdOrNone(st.compareVersions[1]), IdOrNone(st.compareVersions[2])>>

\* C6: with Compare active in the Versions view and two records selected,
\* switching the dataset view to Years and back to Versions leaves each
\* slot holding the record with the originally selected id.
C6_SelectionsRestored ==
    (/\ state.isCompareMode
     /\ state.currentView = "versions"
     /\ state.compareVersions[1] # Null
     /\ state.compareVersions[2] # Null) =>
        LET inYears == RunMicrotasks(ToggleSwitchClick(World, "years"))
            back == RunMicrotasks(ToggleSwitchClick(inYears, "versions"))
        IN  /\ back.st.currentView = "versions"
            /\ SelectedIds(back.st) = SelectedIds(state)

\* C7: every non-null entry of compareVersions is a record of the dataset
\* view that is active: a member of allUpdates in the Versions view, a year
\* group in the Years view.
C7_SelectionsOfActiveView ==
    \A i \in {1, 2} :
        state.compareVersions[i] # Null =>
            state.compareVersions[i] \in Range(DataSource(state))

\* C10: when at most one mode flag is set, saveState followed by
\* restoreState on a fresh default state recovers the view, the mode flags,
\* the visibility flags, removeDuplicates, the collapsed sections, the
\* detail target and the detail return context, and restoreCompareVersions
\* against the same dataset then recovers the two compare selections.
C10_RoundTrip ==
    Cardinality(FlagsSet(state)) <= 1 =>
        LET saved == SaveState(World).storage
            fresh == RestoreState([World EXCEPT !.st = DefaultState,
                                                !.tmp = DefaultTmp,
                                                !.storage = saved])
            resolved == RestoreCompareVersions(
                            [fresh EXCEPT !.st.allUpdates = state.allUpdates])
        IN  /\ \A f \in {"currentView", "removeDuplicates", "showBlocks",
                         "showItems", "collapsedSections", "detailTarget",
                         "detailReturnContext"} \cup ModeFlags :
                    fresh.st[f] = state[f]
            /\ resolved.st.compareVersions = state.compareVersions

\* the detail target a query string names (index.js:285-289)
UrlTarget(p) ==
    Target(IF p.detailType # "" THEN p.detailType ELSE "version", p.detailId)

\* the load succeeds in this step
LoadStep == phase = "loading" /\ phase' = "ready"

\* what the URL decides about the mode, the compare selections and the
\* detail target of the loaded page, and what the snapshot still decides
UrlOverridesAfterLoad ==
    /\ url.mode \in ModeParams \ {"detail"} =>
          FlagsSet(state') = {FlagOf(url.mode)}
    /\ (url.mode = "compare" /\ (url.compare1 # NoStr \/ url.compare2 # NoStr)) =>
          state'.compareVersions =
              <<ResolveId(DataSource(state'), url.compare1),
                ResolveId(DataSource(state'), url.compare2)>>
    /\ (/\ url.mode = "detail"
        /\ url.detailId # NoStr
        /\ GetDetailData(state', UrlTarget(url)) # Null) =>
          /\ FlagsSet(state') = {"isDetailMode"}
          /\ state'.detailTarget = UrlTarget(url)
          /\ content' = "detail"
          /\ cards' = {url.detailId}
    /\ storage.kind = "json" =>
          \A f \in {"showBlocks", "showItems", "removeDuplicates",
                    "collapsedSections"} : state'[f] = storage.value[f]

C9_UnrecognizedIgnored ==
    phase = "loading" =>
        LET persisted == RestoreState([World EXCEPT !.st = DefaultState,
                                                    !.tmp = DefaultTmp]).st
        IN  /\ url.view \notin Views => state.currentView = persisted.currentView
            /\ url.mode \notin ModeParams \cup {""} =>
                  FlagsSet(state) = FlagsSet(persisted)

\* the fields of a stored entry that do not hold a value saveState writes
DamagedFields(entry) ==
    IF entry.kind # "edited" THEN DOMAIN Snapshot(DefaultState)
    ELSE DOMAIN entry.mistyped
            \cup (IF entry.value.detailReturnContext \in ReturnContexts
                  THEN {} ELSE {"detailReturnContext"})
            \cup (IF entry.value.currentView \in Views THEN {} ELSE {"currentView"})

\* C11: restoreState on a missing entry, on a text that is not JSON and on
\* JSON with a field of the wrong type leaves every affected field of the
\* view state at its built-in default (the saved compare ids stay unset and
\* the selections empty when compareVersionIds is not an array).
C11_DamagedSnapshotKeepsDefaults ==
    (phase = "loading" /\ storage.kind # "json") =>
        LET restored == RestoreState([World EXCEPT !.st = DefaultState,
                                                   !.tmp = DefaultTmp])
        IN  \A f \in DamagedFields(storage) :
                IF f = "compareVersionIds"
                THEN /\ restored.tmp.savedCompareVersionIds = NoIds
                     /\ restored.st.compareVersions = DefaultState.compareVersions
                ELSE restored.st[f] = DefaultState[f]

\* C12: with a key-value store that throws, saveState returns normally and
\* leaves the view state as it is, a material groups render whose fetch
\* succeeded does not show the error message, and a click on a section
\* title does not raise.
C12_StoreFailureInvisible ==
    [][storage.kind = "broken" =>
          /\ SaveState(World).st = state
          /\ ~SaveState(World).raised
          /\ MaterialGroupsFetchDone => content' # "material-groups-error"
          /\ content = "material-groups" =>
                \A sectionId \in GroupSections :
                    ~ToggleGroupSection(World, sectionId).raised]_vars

\* C13: when the index fetch or one of the file fetches fails, allUpdates
\* stays empty whatever files had arrived or arrive later, the compare
\* selections stay unresolved, and the failing step shows the load error.
C13_LoadAllOrNothing ==
    /\ [](phase = "failed" =>
              /\ state.allUpdates = <<>>
              /\ state.compareVersions = <<Null, Null>>)
    /\ [][(phase = "loading" /\ phase' = "failed") =>
              /\ content' = "load-error"
              /\ tmp' = tmp]_vars

\* the load failed after a file had arrived, with compare ids waiting to be
\* resolved
C13_Witness ==
    /\ phase = "failed"
    /\ load.arrived # {}
    /\ load.failed # {}
    /\ state.isCompareMode
    /\ tmp.urlCompareVersionIds.set
    /\ content = "load-error"

\* C14: while the initial load is pending nothing is rendered: whatever the
\* user does, the content area keeps what the page came with.
C14_NoViewBeforeLoad == phase = "loading" => content = "none"

\* C15: once the initial load has failed, the page keeps showing the load
\* error whatever the user does, and the load is not issued again.
C15_LoadErrorTerminal ==
    [][phase = "failed" =>
          /\ content' = "load-error"
          /\ phase' = "failed"
          /\ load' = load]_vars

\* C16: setMode with the mode the app is in changes nothing: no view state
\* field, no exit hook, no history entry, no write of the snapshot, no render.
C16_SameModeNoOp == SetMode(World, GetCurrentMode(state)) = World

\* C17: the exit hook leaves no cached dataset behind, so every activation
\* of Statistics, Time Since or Material Groups issues a new fetch.
C17_RefetchAfterExit ==
    [][/\ (~state.isStatsMode /\ state'.isStatsMode) =>
              stats'.pending = stats.pending + 1
       /\ (~state.isTimeSinceMode /\ state'.isTimeSinceMode) =>
              timeSince'.pending = timeSince.pending + 1
       /\ (~state.isMaterialGroupsMode /\ state'.isMaterialGroupsMode) =>
              materialGroups'.pending = materialGroups.pending + 1]_vars

\* C18: while a mode stays active and a fetch of its dataset is in flight, no
\* step issues a further fetch of that dataset.
C18_FetchOncePerActivation ==
    [][/\ (state.isStatsMode /\ state'.isStatsMode /\ stats.pending > 0) =>
              stats'.pending <= stats.pending
       /\ (state.isTimeSinceMode /\ state'.isTimeSinceMode /\ timeSince.pending > 0) =>
              timeSince'.pending <= timeSince.pending
       /\ (state.isMaterialGroupsMode /\ state'.isMaterialGroupsMode
              /\ materialGroups.pending > 0) =>
              materialGroups'.pending <= materialGroups.pending]_vars

\* C19: a click on the other dataset view while Time Since is active leaves
\* Time Since (the flag is cleared, reset has run and no timer of the
\* manager is left) and makes the requested view the current one.
C19_SwitchExitsTimeSince ==
    \A view \in Views :
        (state.isTimeSinceMode /\ view # state.currentView) =>
            LET w == ToggleSwitchClick(World, view)
            IN  /\ ~w.st.isTimeSinceMode
                /\ w.ts.updateInterval = 0
                /\ "reset" \in Range(w.effects)
                /\ w.st.currentView = view

\* C20: a click on the other dataset view while Detail is active ends in
\* List mode with the requested view, no detail target and the return
\* context list.
C20_SwitchLeavesDetail ==
    \A view \in Views :
        (state.isDetailMode /\ view # state.currentView) =>
            LET w == ToggleSwitchClick(World, view)
            IN  /\ GetCurrentMode(w.st) = "list"
                /\ w.st.currentView = view
                /\ w.st.detailTarget = Null
                /\ w.st.detailReturnContext = "list"

\* the ids open is called with: those of the records and of the year
\* groups, the empty one, and one that no record has
OpenIds == VersionIds \cup YearIds \cup {NoStr, GhostId}

\* the id is empty or matches no record of the dataset the kind implies
Unresolvable(st, detailType, detailId) ==
    LET dataset == IF detailType = "year" THEN GroupByYear(st.allUpdates)
                   ELSE st.allUpdates
    IN  \/ detailId = NoStr
        \/ \A i \in 1..Len(dataset) : GenerateCardId(dataset[i]) # detailId

\* C21: open with an empty id, or with an id that no record of the dataset
\* of its kind has, changes nothing: no view state field, no remembered
\* scroll offset, no history entry, no write of the snapshot, no render.
C21_OpenMissIsNoOp ==
    \A detailType \in {"version", "year"}, detailId \in OpenIds,
       silent \in BOOLEAN, preserveContext \in BOOLEAN :
        Unresolvable(state, detailType, detailId) =>
            Open(World, detailType, detailId, silent, preserveContext) = World

\* a startup whose open found no record for the id of the address: the
\* state is as restoreFromURL left it and nothing was rendered
C21_Witness ==
    /\ phase = "ready"
    /\ state.isDetailMode
    /\ state.detailTarget = Null
    /\ content = "none"

\* the mode close returns to for a remembered return context
ReturnMode(detailReturnContext) ==
    IF detailReturnContext \in {"stats", "compare"} THEN detailReturnContext
    ELSE "list"

\* C22: a close right after an open from List, Stats or Compare is back in
\* the mode the open left, with detailTarget null and detailReturnContext
\* "list"; a close in a Detail that was not opened over Time Since or
\* Material Groups ends in the mode of the return context, List for any
\* context other than stats and compare; a close while Detail is not active
\* changes nothing.
C22_CloseReturns ==
    /\ ~state.isDetailMode => Close(World) = World
    /\ (/\ state.isDetailMode
        /\ ~state.isTimeSinceMode
        /\ ~state.isMaterialGroupsMode) =>
          LET closed == Close(World).st
          IN  /\ GetCurrentMode(closed) = ReturnMode(state.detailReturnContext)
              /\ closed.detailTarget = Null
              /\ closed.detailReturnContext = "list"
    /\ GetCurrentMode(state) \in {"list", "stats", "compare"} =>
          \A detailType \in {"version", "year"}, detailId \in OpenIds,
             silent \in BOOLEAN :
              ~Unresolvable(state, detailType, detailId) =>
                  LET opened == Open(World, detailType, detailId, silent, FALSE)
                      closed == Close(opened).st
                  IN  /\ opened.st.isDetailMode
                      /\ GetCurrentMode(closed) = GetCurrentMode(state)
                      /\ closed.detailTarget = Null
                      /\ closed.detailReturnContext = "list"

\* a detail view opened from the statistics table
C22_Witness ==
    /\ state.isDetailMode
    /\ ~state.isTimeSinceMode
    /\ state.detailReturnContext = "stats"
    /\ content = "detail"

\* C23: outside Detail mode detailTarget is null, however the mode was
\* arrived at: setMode, toggleMode, close, a switch of the dataset view, or
\* the startup that reconciles the snapshot with the address.
C23_TargetOnlyInDetail ==
    (phase = "ready" /\ ~state.isDetailMode) => state.detailTarget = Null

\* C24: toggleMode(m) does what setMode("list") does when m is the current
\* mode and what setMode(m) does otherwise; the mode after it is m or List,
\* and from List two toggleMode(m) in a row end in List.
C24_ToggleIsSetMode ==
    \A mode \in Modes :
        LET current == GetCurrentMode(state)
            once == ToggleMode(World, mode)
            twice == ToggleMode(once, mode)
        IN  /\ current = mode => once = SetMode(World, "list")
            /\ current # mode => once = SetMode(World, mode)
            /\ GetCurrentMode(once.st) \in {mode, "list"}
            /\ current = "list" => GetCurrentMode(twice.st) = "list"

\* Compare was toggled on from the list
C24_Witness ==
    /\ phase = "ready"
    /\ GetCurrentMode(state) = "compare"
    /\ content = "compare"
    /\ url.mode = "compare"

RECURSIVE Count(_, _)
\* how many times a handler did something
Count(effects, what) ==
    IF effects = <<>> THEN 0
    ELSE Count(Tail(effects), what) + (IF Head(effects) = what THEN 1 ELSE 0)

\* the handler appended exactly one history entry
PushesOnce(w) == Count(w.effects, "pushState") = 1

\* the handler replaced the current history entry and appended none
OnlyReplaces(w) ==
    /\ Count(w.effects, "pushState") = 0
    /\ Count(w.effects, "replaceState") >= 1

\* C25: setMode, toggleMode, a switch to the other dataset view, an open
\* that is not silent and a close each append exactly one history entry; a
\* pick in a compare selector, a change or a clear of the search and the
\* rewrite of the address after the load replace the current entry and
\* append none.
C25_HistorySemantics ==
    phase = "ready" =>
        /\ \A mode \in Modes :
              /\ PushesOnce(SetMode(World, mode))
              /\ PushesOnce(ToggleMode(World, mode))
        /\ \A view \in Views \ {state.currentView} :
              PushesOnce(ToggleSwitchClick(World, view))
        /\ \A detailType \in {"version", "year"}, detailId \in OpenIds,
              preserveContext \in BOOLEAN :
              ~Unresolvable(state, detailType, detailId) =>
                  PushesOnce(Open(World, detailType, detailId, FALSE, preserveContext))
        /\ state.isDetailMode => PushesOnce(Close(World))
        /\ content = "compare" =>
              \A slot \in {1, 2}, cardId \in CardIds(selectSource) \cup {NoStr} :
                  OnlyReplaces(CompareSelect(World, slot, cardId))
        /\ ~(state.isStatsMode \/ state.isTimeSinceMode \/ state.isMaterialGroupsMode) =>
              \A value \in SearchInputs \cup {NoStr} :
                  OnlyReplaces(SearchDebounced(SearchInput(World, value)))
        /\ OnlyReplaces(SearchClear(World))
        /\ OnlyReplaces(InitLoaded(Construct(storage, url)))

\* the address names the dataset view, the mode, in Compare the ids of the
\* selections and in Detail the target of the view state
UrlEncodes(w) ==
    LET mode == GetCurrentMode(w.st)
    IN  /\ w.url.view = w.st.currentView
        /\ w.url.mode = (IF mode = "list" THEN "" ELSE mode)
        /\ mode = "compare" =>
              /\ w.url.compare1 = IdOrNone(w.st.compareVersions[1])
              /\ w.url.compare2 = IdOrNone(w.st.compareVersions[2])
        /\ mode = "detail" =>
              /\ w.st.detailTarget # Null
              /\ w.url.detailType = w.st.detailTarget.type
              /\ w.url.detailId = w.st.detailTarget.id

\* the stored snapshot names the same view, mode, selections and target
SnapshotEncodes(w) ==
    /\ w.storage.kind = "json"
    /\ LET saved == w.storage.value
           mode == GetCurrentMode(w.st)
       IN  /\ saved.currentView = w.st.currentView
           /\ \A flag \in ModeFlags \cup {"isDetailMode"} : saved[flag] = w.st[flag]
           /\ mode = "compare" =>
                 saved.compareVersionIds = <<IdOrNone(w.st.compareVersions[1]),
                                             IdOrNone(w.st.compareVersions[2])>>
           /\ mode = "detail" => saved.detailTarget = w.st.detailTarget

Encodes(w) == UrlEncodes(w) /\ SnapshotEncodes(w)

\* C26: when setMode, toggleMode, a switch of the dataset view, an open, a
\* close or a pick in a compare selector has run, the address and the stored
\* snapshot both name the view, the mode, the compare selections and the
\* detail target of the view state.
C26_UrlAndSnapshotCurrent ==
    phase = "ready" =>
        /\ \A mode \in Modes :
              /\ Encodes(SetMode(World, mode))
              /\ Encodes(ToggleMode(World, mode))
        /\ \A view \in Views \ {state.currentView} :
              Encodes(ToggleSwitchClick(World, view))
        /\ \A detailType \in {"version", "year"}, detailId \in OpenIds :
              ~Unresolvable(state, detailType, detailId) =>
                  Encodes(Open(World, detailType, detailId, FALSE, FALSE))
        /\ state.isDetailMode => Encodes(Close(World))
        /\ content = "compare" =>
              \A slot \in {1, 2}, cardId \in CardIds(selectSource) \cup {NoStr} :
                  Encodes(CompareSelect(World, slot, cardId))

\* the ids that restoreCompareVersions is about to resolve
PendingCompareIds ==
    IF tmp.urlCompareVersionIds.set THEN tmp.urlCompareVersionIds
    ELSE tmp.savedCompareVersionIds

\* some record of the list has the id
Matches(dataSource, id) ==
    \E i \in 1..Len(dataSource) : GenerateCardId(dataSource[i]) = id

\* C27: restoreCompareVersions turns an id that no record of the current
\* dataset view has into a null slot; it raises nothing, and the other slot
\* gets the record of its own id, or null when that id matches nothing.
C27_CompareMissIsNull ==
    PendingCompareIds.set =>
        LET loaded == [World EXCEPT !.st.allUpdates = LoadedUpdates]
            dataSource == DataSource(loaded.st)
            ids == PendingCompareIds.ids
            restored == RestoreCompareVersions(loaded)
            selected == restored.st.compareVersions
        IN  \A slot \in {1, 2} :
                ~Matches(dataSource, ids[slot]) =>
                    /\ selected[slot] = Null
                    /\ restored.ok /\ ~restored.raised
                    /\ LET other == 3 - slot
                       IN  IF Matches(dataSource, ids[other])
                           THEN /\ selected[other] # Null
                                /\ GenerateCardId(selected[other]) = ids[other]
                           ELSE selected[other] = Null

\* a page opened with one compare id that resolves and one that no record has
C27_Witness ==
    /\ phase = "loading"
    /\ tmp.urlCompareVersionIds.set
    /\ tmp.urlCompareVersionIds.ids[1] \in VersionIds
    /\ tmp.urlCompareVersionIds.ids[2] = GhostId
    /\ state.currentView = "versions"

\* C28: once the load has completed, Detail mode has a detail target and
\* the target resolves to a record; a startup whose detail id resolves to
\* nothing is not left in Detail mode and has a view rendered.
C28_DetailHasRecord ==
    phase = "ready" =>
        /\ state.isDetailMode =>
              /\ state.detailTarget # Null
              /\ GetDetailData(state, state.detailTarget) # Null
        /\ content # "none"

\* where a record stands in a list
IndexIn(list, record) == CHOOSE i \in 1..Len(list) : list[i] = record

\* the partition of a record: upcoming, year only, full date
Partition(record) ==
    IF record.release_date = NullDate THEN 1
    ELSE IF IsYearOnly(record.release_date) THEN 2
    ELSE 3

\* C29: after a successful load allUpdates is a permutation of the fetched
\* records: the records without a release date first, in fetch order, then
\* those with a bare year by year descending, then those with a full date
\* by parsed date descending; A, B, C, D of the example end as A, B, C, D
\* whatever order they were fetched in.
C29_SortedInPartitions ==
    phase = "ready" =>
        LET fetched == load.updatesData
            sorted == state.allUpdates
        IN  /\ Len(sorted) = Len(fetched)
            /\ Range(sorted) = Range(fetched)
            /\ \A i \in 1..Len(sorted), j \in 1..Len(sorted) :
                  i < j =>
                      LET a == sorted[i]
                          b == sorted[j]
                      IN  /\ Partition(a) <= Partition(b)
                          /\ (Partition(a) = 1 /\ Partition(b) = 1) =>
                                IndexIn(fetched, a) < IndexIn(fetched, b)
                          /\ (Partition(a) = 2 /\ Partition(b) = 2) =>
                                a.release_date.y >= b.release_date.y
                          /\ (/\ Partition(a) = 3 /\ Partition(b) = 3
                              /\ ParseDate(a.release_date).ok
                              /\ ParseDate(b.release_date).ok) =>
                                DateValue(ParseDate(a.release_date))
                                    >= DateValue(ParseDate(b.release_date))
            /\ Range(fetched) = {RecordA, RecordB, RecordC, RecordD} =>
                  sorted = <<RecordA, RecordB, RecordC, RecordD>>

\* the four records of the example were fetched in the reverse order
C29_Witness ==
    /\ phase = "ready"
    /\ load.updatesData = <<RecordD, RecordC, RecordB, RecordA>>
    /\ state.allUpdates = <<RecordA, RecordB, RecordC, RecordD>>

\* a date that is neither null nor a bare year and does not parse
Unparseable(record) ==
    Partition(record) = 3 /\ ~ParseDate(record.release_date).ok

\* C30: among the records with a full date, one whose date does not parse
\* stands behind every one whose date parses, and two whose dates do not
\* parse stand in the order they were fetched in.
C30_UnparseableLast ==
    phase = "ready" =>
        LET fetched == load.updatesData
            sorted == state.allUpdates
        IN  \A i \in 1..Len(sorted), j \in 1..Len(sorted) :
                /\ (/\ Unparseable(sorted[i])
                    /\ Partition(sorted[j]) = 3
                    /\ ~Unparseable(sorted[j])) => j < i
                /\ (/\ Unparseable(sorted[i])
                    /\ Unparseable(sorted[j])
                    /\ i < j) =>
                      IndexIn(fetched, sorted[i]) < IndexIn(fetched, sorted[j])

\* the release year of a record, 0 when its date is null or does not parse
ReleaseYear(record) ==
    IF record.release_date.kind \in {"year", "full"} THEN record.release_date.y ELSE 0

RECURSIVE Flatten(_)
\* the concatenation of a list of lists
Flatten(lists) ==
    IF lists = <<>> THEN <<>> ELSE Head(lists) \o Flatten(Tail(lists))

RECURSIVE Total(_)
\* the sum of a list of numbers
Total(numbers) ==
    IF numbers = <<>> THEN 0 ELSE Head(numbers) + Total(Tail(numbers))

\* the lists of one content type of the records of one year, in input order
AddedInYear(updates, year, t) ==
    LET ofYear == SelectSeq(updates, LAMBDA u : ReleaseYear(u) = year)
    IN  Flatten([i \in 1..Len(ofYear) |-> ofYear[i].added[t]])

\* what C31 says of the yearGroups of one list of records
GroupedByYear(updates) ==
    LET yearGroups == GroupByYear(updates)
        years == {ReleaseYear(updates[i]) : i \in 1..Len(updates)} \ {0}
        dated == SelectSeq(updates, LAMBDA u : ReleaseYear(u) # 0)
    IN  /\ Len(yearGroups) = Cardinality(years)
        /\ \A i \in 1..Len(yearGroups) :
              \E year \in years :
                  /\ Cardinality({later \in years : later > year}) = i - 1
                  /\ yearGroups[i].name = NumToStr(year)
                  /\ yearGroups[i].type = "year"
                  /\ \A t \in Range(ContentTypes) :
                        yearGroups[i].added[t] = AddedInYear(updates, year, t)
        /\ \A t \in Range(ContentTypes) :
              Total([i \in 1..Len(yearGroups) |-> Len(yearGroups[i].added[t])])
                  = Total([i \in 1..Len(dated) |-> Len(dated[i].added[t])])

\* C31: groupByYear gives one group per release year, named by the year, of
\* type "year", the latest year first; a group's list of a content type is
\* the lists of the records of that year one after the other in input order;
\* records without a date or with one that does not parse are in no group,
\* so the totals per type are those of the dated records.  Two records of
\* March and September 2021 with one block each give one group "2021" with
\* the two blocks in their order.
C31_GroupByYear ==
    /\ GroupedByYear(load.updatesData)
    /\ GroupedByYear(state.allUpdates)
    /\ load.updatesData = <<March2021, September2021>> =>
          LET yearGroups == GroupByYear(load.updatesData)
          IN  /\ Len(yearGroups) = 1
              /\ yearGroups[1].name = <<"2", "0", "2", "1">>
              /\ yearGroups[1].added.blocks = <<ItemA, ItemB>>

\* the year yearGroups of the two records of 2021 are on the page
C31_Witness ==
    /\ phase = "ready"
    /\ load.updatesData = <<March2021, September2021>>
    /\ state.currentView = "years"
    /\ content = "list"
    /\ cards = {<<"i", "d", "-", "2", "0", "2", "1">>}

\* the items the filter is given on this page: the blocks of the record
ItemsOnPage == load.updatesData[1].added.blocks

\* what C32 asks of an item
Passes(item, query, removeDuplicates) ==
    LET parsed == ParseSearchQuery(query)
        name == ToLower(item.name)
        identifier == ToLower(item.identifier)
        typesAndTags == Range(ToLowerAll(item.types)) \cup Range(ToLowerAll(item.tags))
    IN  /\ \/ parsed.text = NoStr
           \/ Includes(name, parsed.text)
           \/ Includes(identifier, parsed.text)
        /\ Range(parsed.tags) \subseteq typesAndTags
        /\ removeDuplicates => Hidden \notin Range(item.types)

\* a list is another with some elements left out, the order kept
Subsequence(part, whole) ==
    part = SelectSeq(whole, LAMBDA x : x \in Range(part))

\* C32: filterItems returns the items, in their order and no others, for
\* which the text of the query is empty or part of the lower-cased name or
\* identifier, every tag of the query is among the lower-cased types and
\* tags, and, with removeDuplicates, "hidden" is not among the types.
C32_FilterItems ==
    LET result == FilterItems(ItemsOnPage, search, state.removeDuplicates)
    IN  /\ Subsequence(result, ItemsOnPage)
        /\ \A item \in Range(ItemsOnPage) :
              item \in Range(result) <=> Passes(item, search, state.removeDuplicates)

\* the page shows the record with a query that one of its two blocks passes
C32_Witness ==
    /\ phase = "ready"
    /\ search # NoStr
    /\ Len(ItemsOnPage) = 2
    /\ Len(FilterItems(ItemsOnPage, search, state.removeDuplicates)) = 1
    /\ cards # {}

\* the records and the year groups the filter is applied to on this page
EntriesOnPage ==
    Range(load.updatesData) \cup Range(state.allUpdates)
        \cup Range(GroupByYear(load.updatesData))

\* C33: to filter a record that was already filtered with the same query and
\* the same flag gives the lists the first filtering gave.
C33_FilterIdempotent ==
    \A entry \in EntriesOnPage, query \in FilterQueries \cup {search},
       removeDuplicates \in BOOLEAN :
        LET once == FilterAllContentTypes(entry, query, removeDuplicates)
            twice == FilterAllContentTypes([entry EXCEPT !.added = once],
                                           query, removeDuplicates)
        IN  twice = once

\* a record whose blocks the filter of the page cuts down, on the page
C33_Witness ==
    /\ phase = "ready"
    /\ state.removeDuplicates
    /\ ItemB \in Range(ItemsOnPage)
    /\ FilterAllContentTypes(state.allUpdates[1], search, TRUE).blocks # <<>>
    /\ content = "list"

\* a record has something to show: a content type that is enabled and is
\* not empty once filtered
HasVisibleContent(entry, query, removeDuplicates, visibility) ==
    \E t \in Range(ContentTypes) :
        /\ visibility[t]
        /\ FilterItems(entry.added[t], query, removeDuplicates) # <<>>

\* no query, a text that one of the two items has, a tag of the other
VisibilityQueries == {NoStr, <<"a">>, <<"#", "h", "i", "d", "d", "e", "n">>}

\* C34: getFilteredData returns, in the order of the dataset view, the
\* records that have an enabled content type that is not empty after the
\* filter, each with its filtered lists; a record whose lists are all
\* disabled or empty is left out, and with every flag off nothing is left.
C34_GetFilteredData ==
    \A view \in Views, query \in VisibilityQueries, removeDuplicates \in BOOLEAN,
       showBlocks \in BOOLEAN, showItems \in BOOLEAN :
        LET visibility == [blocks |-> showBlocks, items |-> showItems]
            source == IF view = "years" THEN GroupByYear(state.allUpdates)
                      ELSE state.allUpdates
            expected == SelectSeq(source, LAMBDA e :
                            HasVisibleContent(e, query, removeDuplicates, visibility))
            result == GetFilteredData(state.allUpdates, view, query,
                                      removeDuplicates, visibility)
        IN  /\ Len(result) = Len(expected)
            /\ \A i \in 1..Len(result) :
                  /\ result[i].name = expected[i].name
                  /\ result[i].added =
                        FilterAllContentTypes(expected[i], query, removeDuplicates)
            /\ (~showBlocks /\ ~showItems) => result = <<>>

\* with the blocks hidden a record that has only blocks is not on the page,
\* and another record is
C34_Witness ==
    /\ phase = "ready"
    /\ ~state.showBlocks
    /\ state.currentView = "versions"
    /\ March2021 \in Range(state.allUpdates)
    /\ GenerateCardId(March2021) \notin cards
    /\ cards # {}

\* the places where a word of a string starts: a character that is not
\* white space, at the start or behind white space
WordStarts(s) ==
    {i \in 1..Len(s) : ~IsSpace(s[i]) /\ (i = 1 \/ IsSpace(s[i - 1]))}

\* the word that starts at a place: up to the next white space or the end
WordAt(s, i) ==
    LET ends == {j \in i..Len(s) :
                    /\ \A k \in i..j : ~IsSpace(s[k])
                    /\ (j = Len(s) \/ IsSpace(s[j + 1]))}
    IN  SubSeq(s, i, CHOOSE j \in ends : TRUE)

\* the words of a string in their order
Words(s) ==
    LET starts == WordStarts(s)
        nth(n) == CHOOSE i \in starts : Cardinality({j \in starts : j < i}) = n - 1
    IN  [n \in 1..Cardinality(starts) |-> WordAt(s, nth(n))]

\* what the parse must give when the characters in keep stay in a tag
ParsesInto(query, parsed, keep) ==
    LET words == Words(query)
        tagWords == SelectSeq(words, LAMBDA w : Head(w) = "#")
        textWords == SelectSeq(words, LAMBDA w : Head(w) # "#")
        stripped == [i \in 1..Len(tagWords) |->
                        SelectSeq(ToLower(Tail(tagWords[i])), LAMBDA c : c \in keep)]
    IN  /\ parsed.tags = SelectSeq(stripped, LAMBDA tag : tag # NoStr)
        /\ parsed.text = Flatten([i \in 1..Len(textWords) |->
                                    IF i = 1 THEN ToLower(textWords[i])
                                    ELSE <<" ">> \o ToLower(textWords[i])])

WordCharacters == Letters \cup Digits \cup {"_"}

\* C35: parseSearchQuery splits the query at white space; a word that starts
\* with "#" gives its rest, lower-cased and without the characters that are
\* not word characters, as a tag unless nothing is left of it; the other
\* words, lower-cased, joined by one blank each, are the text.
\* "Ender #rare #boss" gives the text "ender" and the tags rare and boss.
C35_ParseSearchQuery ==
    /\ ParsesInto(search, ParseSearchQuery(search), WordCharacters)
    /\ search = EnderRareBoss =>
          ParseSearchQuery(search) =
              [text |-> <<"e", "n", "d", "e", "r">>,
               tags |-> << <<"r", "a", "r", "e">>, <<"b", "o", "s", "s">> >>]

\* C35 as the code has it: the hyphen stays in a tag as well
C35_ParseKeepsHyphen ==
    /\ ParsesInto(search, ParseSearchQuery(search), WordCharacters \cup {"-"})
    /\ search = EnderRareBoss =>
          ParseSearchQuery(search) =
              [text |-> <<"e", "n", "d", "e", "r">>,
               tags |-> << <<"r", "a", "r", "e">>, <<"b", "o", "s", "s">> >>]

\* the page shows the list for a query with a tag that has a hyphen
C35_Witness ==
    /\ phase = "ready"
    /\ search = <<"#", "b", "-">>
    /\ ParseSearchQuery(search).tags = << <<"b", "-">> >>

\* the sum of the n last numbers of a list
TotalOfLast(numbers, n) ==
    Total(SubSeq(numbers, Len(numbers) - n + 1, Len(numbers)))

\* a series never goes down and ends at the total of the counts
GrowsTo(series, counts) ==
    /\ \A i \in 1..(Len(series) - 1) : series[i] <= series[i + 1]
    /\ series # <<>> => series[Len(series)] = Total(counts)

\* element i of the series is the sum of the counts of the i earliest
\* periods, the counts being given latest period first
SumsFromEarliest(series, counts) ==
    /\ Len(series) = Len(counts)
    /\ \A i \in 1..Len(series) : series[i] = TotalOfLast(counts, i)

\* the counts of one content type per record, in display order
CountsPerVersion(t) ==
    [i \in 1..Len(state.allUpdates) |-> Len(state.allUpdates[i].added[t])]

\* the counts of one content type per year group, in display order
CountsPerYear(t) ==
    LET years == GroupByYear(state.allUpdates)
    IN  [i \in 1..Len(years) |-> Len(years[i].added[t])]

\* the statistics of the versions in display order
StatsPerVersion ==
    [i \in 1..Len(state.allUpdates) |->
        [label |-> GrowthLabel(state.allUpdates[i]),
         counts |-> [t \in Range(ContentTypes) |-> Len(state.allUpdates[i].added[t])]]]

\* the growth by version, from the dataset view in display order
GrowthByVersionFromEarliest ==
    \A t \in Range(ContentTypes) :
        /\ SumsFromEarliest(GetGrowthByVersion(state.allUpdates)[t], CountsPerVersion(t))
        /\ SumsFromEarliest(CalculateChartData(StatsPerVersion, TRUE)[t],
                            CountsPerVersion(t))

\* the growth by year
GrowthByYearFromEarliest ==
    \A t \in Range(ContentTypes) :
        SumsFromEarliest(GetGrowthByYear(state.allUpdates)[t], CountsPerYear(t))

\* the series never go down and end at the total
GrowthSeriesGrow ==
    \A t \in Range(ContentTypes) :
        /\ GrowsTo(GetGrowthByVersion(state.allUpdates)[t], CountsPerVersion(t))
        /\ GrowsTo(CalculateChartData(StatsPerVersion, TRUE)[t], CountsPerVersion(t))
        /\ GrowsTo(GetGrowthByYear(state.allUpdates)[t], CountsPerYear(t))

\* C36: the cumulative series of a content type are running sums from the
\* earliest period on: with the dataset view given in display order, latest
\* first, element i is the sum of the counts of the i + 1 earliest periods
\* (i from 0); so a series never goes down and its last element is the
\* total.
C36_CumulativeGrowth ==
    phase = "ready" => (GrowthByVersionFromEarliest /\ GrowthByYearFromEarliest /\ GrowthSeriesGrow)

(***************************************************************************)
(* C37                                                                     *)
(***************************************************************************)
\* the clock readings of two calls
ClockReadings == {ClockNow, ClockNow + 1}

\* the labels of a record that are not empty, in the order display name,
\* name, version label
LabelsOf(data) ==
    SelectSeq(<<Field(data, "display_name"), Field(data, "name"), Field(data, "java")>>,
              LAMBDA label : label # NoStr)

\* body is the label with every character that is not an ASCII letter or
\* digit replaced by one separator, the others kept
SeparatedLabel(body, label) ==
    /\ Len(body) = Len(label)
    /\ \A k \in 1..Len(label) :
          body[k] = IF label[k] \in Digits \cup Letters THEN label[k] ELSE "-"

\* id is body, with "id-" in front exactly when body starts with a digit
PrefixedBeforeDigit(id, body) ==
    IF body # <<>> /\ body[1] \in Digits
    THEN id = <<"i", "d", "-">> \o body
    ELSE id = body

\* C37: for every loaded record that has a name or a version label,
\* generateCardId gives the same id whatever the clock reads; the id is the
\* record's label with each character that is not an ASCII letter or digit
\* replaced by one '-', with 'id-' in front when that would start with a
\* digit; so it holds only ASCII letters, digits and '-' and never starts
\* with a digit.
C37_GenerateCardId ==
    \A i \in 1..Len(state.allUpdates) :
        LET data == state.allUpdates[i]
            id == GenerateCardIdAt(data, ClockNow)
        IN  (Field(data, "name") # NoStr \/ Field(data, "java") # NoStr) =>
                /\ \A now \in ClockReadings : GenerateCardIdAt(data, now) = id
                /\ \A k \in 1..Len(id) : id[k] \in Digits \cup Letters \cup {"-"}
                /\ id # <<>> /\ id[1] \notin Digits
                /\ \E body \in {SubSeq(id, 1 + n, Len(id)) : n \in {0, 3}} :
                      /\ SeparatedLabel(body, LabelsOf(data)[1])
                      /\ PrefixedBeforeDigit(id, body)

\* the card of a record named "7 " is on the page, with the id "id-7-"
C37_Witness ==
    /\ phase = "ready"
    /\ Len(state.allUpdates) = 1
    /\ state.allUpdates[1].name = <<"7", " ">>
    /\ "display_name" \notin DOMAIN state.allUpdates[1]
    /\ <<"i", "d", "-", "7", "-">> \in cards

(***************************************************************************)
(* C38                                                                     *)
(***************************************************************************)
\* C38: in Detail, a click on a previous/next button of the navigation panel
\* opens the other target and leaves the return context as it was recorded
\* when Detail was entered, so that a close after the click ends in the mode
\* a close before it would have ended in.
C38_NavKeepsReturnMode ==
    state.isDetailMode =>
        \A t \in nav :
            LET opened == Open(World, t.type, t.id, FALSE, FALSE)
            IN  /\ opened.st.detailReturnContext = state.detailReturnContext
                /\ GetCurrentMode(Close(opened).st) = GetCurrentMode(Close(World).st)

(***************************************************************************)
(* C39                                                                     *)
(***************************************************************************)
\* C39: while the Time Since or the Material Groups flag is set, and so in
\* particular while either mode is the current one, a click on either label
\* of the dataset-view toggle leaves the page as it is: the state with its
\* view, mode flags and compare selection, the address, the stored snapshot
\* and what is shown are unchanged, no history entry is pushed or replaced,
\* nothing is saved and nothing is rendered.
C39_ToggleDisabled ==
    (state.isTimeSinceMode \/ state.isMaterialGroupsMode) =>
        \A targetView \in Views :
            LET clicked == ToggleSwitchClick(World, targetView)
            IN  /\ clicked.st = state
                /\ clicked.url = url
                /\ clicked.storage = storage
                /\ clicked.effects = <<>>
                /\ clicked = World

\* Time Since and Material Groups, each shown with the dataset view that the
\* toggle would leave
C39_Witness ==
    /\ GetCurrentMode(state) \in {"time-since", "material-groups"}
    /\ content = GetCurrentMode(state)
    /\ \E targetView \in Views : targetView # state.currentView

(***************************************************************************)
(* C40                                                                     *)
(***************************************************************************)
\* the callback, run in a mode in which the search is off, shows nothing new
RendersNothing(w) ==
    /\ w.content = content /\ w.links = links /\ w.cards = cards /\ w.nav = nav
    /\ w.selectSource = selectSource
    /\ w.st = state /\ w.stats = stats /\ w.ts = timeSince /\ w.mg = materialGroups
    /\ \A k \in 1..Len(w.effects) : w.effects[k] # "render"

\* C40: the search debounce never has more than one timeout pending; from an
\* accepted search input until the callback runs a timeout is pending, the
\* callback runs only when DEBOUNCE_DELAY has passed since the last input
\* and runs at most once after it, and a timeout whose delay has passed
\* without further input leads to the run of the callback; the callback acts
\* on the mode current when it runs: in Stats, Time Since and Material Groups
\* it renders nothing, and in List it shows the list.
C40_SearchDebounce ==
    /\ [](Cardinality(debounce.pending) <= 1)
    /\ [](debounce.calls <= 1)
    /\ [](debounce.timeout # 0 /\ debounce.calls = 0 => debounce.pending # {})
    /\ [][CallbackRuns => debounce.idle = DebounceDelay /\ debounce'.pending = {}]_vars
    /\ [](\A t \in debounce.pending :
             LET ran == Later(World, t.id)
             IN  /\ GetCurrentMode(state) \in {"stats", "time-since", "material-groups"}
                      => RendersNothing(ran)
                 /\ GetCurrentMode(state) = "list" /\ phase = "ready"
                      => ran.content = "list")
    /\ (debounce.pending # {} /\ debounce.idle = DebounceDelay)
           ~> (debounce.calls = 1 \/ debounce.idle < DebounceDelay)

\* the callback has run once after an input, in Stats
C40_Witness ==
    /\ debounce.calls = 1
    /\ debounce.pending = {}
    /\ search # NoStr
    /\ GetCurrentMode(state) = "stats"

====
